---- MODULE Spec2Model ----
(***************************************************************************)
(* Model of the ToolsEngine class (context-engine tools engine): the tool  *)
(* registry (a Map from plugin identifier to manifest), the injected       *)
(* checkers, the default tool ids, and the operations generateTools,       *)
(* generateToolsDetailed and the registry mutation methods.                *)
(***************************************************************************)
EXTENDS Integers, Sequences, FiniteSets, TLC

\* ------------------------------------------------------------------------
\* Bounds of the model
\* ------------------------------------------------------------------------
MaxToolIds == 2          \* longest params.toolIds list
MaxDefaultToolIds == 1   \* longest options.defaultToolIds list
MaxSchemas == 2          \* longest manifest list given to the constructor / bulk update
MaxMessages == 4         \* longest message list given to the tool message reorderer

\* ------------------------------------------------------------------------
\* Input universes
\* ------------------------------------------------------------------------
PluginIds == {"a", "ab"}
Models == {"gpt-4"}
Providers == {"openai"}

Api(name) == [name |-> name, description |-> "d-" \o name, parameters |-> "p-" \o name]

\* LobeChatPluginManifest values the callers hand to the engine: identifier,
\* ordered api list, optional type ("undefined" = field absent).
ManifestPool ==
  { [identifier |-> "a",  api |-> <<Api("bc"), Api("c")>>, type |-> "default"],
    [identifier |-> "a",  api |-> <<>>,                    type |-> "undefined"],
    [identifier |-> "ab", api |-> <<Api("c")>>,            type |-> "builtin"] }

SeqsUpTo(S, n) == UNION { [1..k -> S] : k \in 0..n }

\* An optional value: undefined, or a defined value.
Undefined == [defined |-> FALSE, value |-> <<>>]
Some(v) == [defined |-> TRUE, value |-> v]

\* options.enableChecker: absent, or a predicate (here: rejects a set of plugin ids).
EnableCheckers ==
  { [present |-> FALSE, rejects |-> {}] } \cup
  { [present |-> TRUE, rejects |-> S] : S \in {{"ab"}} }

\* options.functionCallChecker: absent, or a predicate over (model, provider)
\* (here: the set of models it reports as supporting function calling).
FunctionCallCheckers ==
  { [present |-> FALSE, supports |-> {}] } \cup
  { [present |-> TRUE, supports |-> S] : S \in {{}, {"gpt-4"}} }

\* options.generateToolName: absent ("none") or a caller-supplied generator.
NameGenerators == {"none", "qualified", "apiNameOnly"}

\* ------------------------------------------------------------------------
\* JavaScript Map, kept as the sequence of its entries in insertion order
\* ------------------------------------------------------------------------
MapHas(map, k) == \E i \in 1..Len(map) : map[i].key = k

MapGet(map, k) == map[CHOOSE i \in 1..Len(map) : map[i].key = k].value

MapSet_appends(map, k, v) == Append(map, [key |-> k, value |-> v])

MapSet(map, k, v) ==
  IF MapHas(map, k)
    THEN [i \in 1..Len(map) |-> IF map[i].key = k THEN [key |-> k, value |-> v] ELSE map[i]]
    ELSE Append(map, [key |-> k, value |-> v])

MapDelete(map, k) == SelectSeq(map, LAMBDA e : e.key # k)

MapKeys(map) == [i \in 1..Len(map) |-> map[i].key]

RECURSIVE SetAll(_, _)
\* for (const schema of list) map.set(schema.identifier, schema)
SetAll(map, list) ==
  IF list = <<>> THEN map
  ELSE SetAll(MapSet(map, Head(list).identifier, Head(list)), Tail(list))

\* new Map(list.map((schema) => [schema.identifier, schema]))
MapFromSchemas(list) == SetAll(<<>>, list)

VARIABLES
  manifestSchemas,     \* this.manifestSchemas : Map<string, manifest>
  enableChecker,       \* this.enableChecker
  functionCallChecker, \* this.functionCallChecker
  defaultToolIds,      \* this.defaultToolIds
  options,             \* this.options (generateToolName override)
  ret,                 \* the last call: operation, arguments, returned value
  updating,            \* an updateManifestSchemas call in progress: position in its loop
  lastUpdate,          \* the last registry update: registry before it and after it
  held,                \* the result of the last finished resolution, kept by its caller
  runs,                \* the contextEngineering invocations in flight, one record each
  reorderIn,           \* message list handed to the tool message reorderer
  reorderOut,          \* message list it returned
  toolStore,           \* useToolStore state with the doubles of its services and their calls
  aiModels,            \* the ai_models table and the last AiModelModel call
  messageService,      \* ClientService: the message table, the file storage, the last call
  baichuanRequest      \* LobeBaichuanAI: the payload handed to handlePayload and its result

engineVars == <<manifestSchemas, enableChecker, functionCallChecker, defaultToolIds, options, ret>>
liveVars == <<updating, lastUpdate, held>>
pipelineVars == <<runs>>
reorderVars == <<reorderIn, reorderOut>>
serviceVars == <<toolStore, aiModels, messageService, baichuanRequest>>

vars == <<engineVars, liveVars, pipelineVars, reorderVars, serviceVars>>

\* Values of the parts of the state a specification does not exercise.
IdleUpdate == [pc |-> "idle", rest |-> <<>>, list |-> <<>>]
LiveIdle ==
  /\ updating = IdleUpdate
  /\ lastUpdate = [op |-> "none", arg |-> <<>>, pre |-> <<>>, post |-> <<>>]
  /\ held = [defined |-> FALSE, value |-> <<>>]
PipelineIdle == runs = <<>>
ReorderIdle == reorderIn = <<>> /\ reorderOut = Undefined
ServicesIdle ==
  toolStore = <<>> /\ aiModels = <<>> /\ messageService = <<>> /\ baichuanRequest = <<>>

\* ------------------------------------------------------------------------
\* Name generation
\* ------------------------------------------------------------------------
PLUGIN_SCHEMA_SEPARATOR == "____"

\* generateToolName of ./utils: identifier, api name and type joined by the separator.
DefaultGenerateToolName(identifier, apiName, type) ==
  identifier \o PLUGIN_SCHEMA_SEPARATOR \o apiName
    \o (IF type = "undefined" THEN "" ELSE PLUGIN_SCHEMA_SEPARATOR \o type)

\* A caller-supplied options.generateToolName.
CustomGenerateToolName(gen, identifier, apiName, type) ==
  IF gen = "qualified" THEN apiName \o "@" \o identifier
  ELSE apiName

generateToolName_dropsIdentifier(identifier, apiName, type) ==
  IF options.generateToolName # "none"
    THEN CustomGenerateToolName(options.generateToolName, identifier, apiName, type)
    ELSE DefaultGenerateToolName("", apiName, type)

\* ToolsEngine.generateToolName
generateToolName(identifier, apiName, type) ==
  IF options.generateToolName # "none"
    THEN CustomGenerateToolName(options.generateToolName, identifier, apiName, type)
    ELSE DefaultGenerateToolName(identifier, apiName, type)

\* ------------------------------------------------------------------------
\* Capability and enablement checks
\* ------------------------------------------------------------------------
checkFunctionCallSupport_alwaysTrue(model, provider) == TRUE

\* ToolsEngine.checkFunctionCallSupport
checkFunctionCallSupport(model, provider) ==
  IF functionCallChecker.present
    THEN model \in functionCallChecker.supports
    ELSE TRUE

defaultEnabledCheck_rejects == FALSE

\* ToolsEngine.defaultEnabledCheck
defaultEnabledCheck == TRUE

\* const isEnabled = this.enableChecker ? this.enableChecker({...}) : this.defaultEnabledCheck()
isEnabled(manifest, pluginId, model, provider) ==
  IF enableChecker.present
    THEN pluginId \notin enableChecker.rejects
    ELSE defaultEnabledCheck

\* ------------------------------------------------------------------------
\* filterEnabledPlugins
\* ------------------------------------------------------------------------
FilterStep_dropsNotFound(acc, pluginId, model, provider) ==
  IF ~MapHas(manifestSchemas, pluginId)
    THEN acc
    ELSE LET manifest == MapGet(manifestSchemas, pluginId) IN
         IF isEnabled(manifest, pluginId, model, provider)
           THEN [acc EXCEPT !.enabledManifests = Append(@, manifest)]
           ELSE [acc EXCEPT !.filteredPlugins =
                              Append(@, [id |-> pluginId, reason |-> "disabled"])]

FilterStep_dropsDisabled(acc, pluginId, model, provider) ==
  IF ~MapHas(manifestSchemas, pluginId)
    THEN [acc EXCEPT !.filteredPlugins =
                       Append(@, [id |-> pluginId, reason |-> "not_found"])]
    ELSE LET manifest == MapGet(manifestSchemas, pluginId) IN
         IF isEnabled(manifest, pluginId, model, provider)
           THEN [acc EXCEPT !.enabledManifests = Append(@, manifest)]
           ELSE acc

\* The body of the loop `for (const pluginId of pluginIds)`.
FilterStep(acc, pluginId, model, provider) ==
  IF ~MapHas(manifestSchemas, pluginId)
    THEN [acc EXCEPT !.filteredPlugins =
                       Append(@, [id |-> pluginId, reason |-> "not_found"])]
    ELSE LET manifest == MapGet(manifestSchemas, pluginId) IN
         IF isEnabled(manifest, pluginId, model, provider)
           THEN [acc EXCEPT !.enabledManifests = Append(@, manifest)]
           ELSE [acc EXCEPT !.filteredPlugins =
                              Append(@, [id |-> pluginId, reason |-> "disabled"])]

RECURSIVE FilterLoop(_, _, _, _)
FilterLoop(acc, pluginIds, model, provider) ==
  IF pluginIds = <<>> THEN acc
  ELSE FilterLoop(FilterStep(acc, Head(pluginIds), model, provider),
                  Tail(pluginIds), model, provider)

\* ToolsEngine.filterEnabledPlugins
filterEnabledPlugins(pluginIds, model, provider) ==
  FilterLoop([enabledManifests |-> <<>>, filteredPlugins |-> <<>>],
             pluginIds, model, provider)

\* ------------------------------------------------------------------------
\* convertManifestsToTools
\* ------------------------------------------------------------------------
ManifestTools_firstApiOnly(manifest) ==
  [i \in 1..(IF Len(manifest.api) > 0 THEN 1 ELSE 0) |->
     [type |-> "function",
      function |-> [description |-> manifest.api[i].description,
                    name |-> generateToolName(manifest.identifier, manifest.api[i].name,
                                              manifest.type),
                    parameters |-> manifest.api[i].parameters]]]

\* manifest.api.map((api) => ({ function: {...}, type: 'function' }))
ManifestTools(manifest) ==
  [i \in 1..Len(manifest.api) |->
     [type |-> "function",
      function |-> [description |-> manifest.api[i].description,
                    name |-> generateToolName(manifest.identifier, manifest.api[i].name,
                                              manifest.type),
                    parameters |-> manifest.api[i].parameters]]]

RECURSIVE FlatMapTools(_)
FlatMapTools(manifests) ==
  IF manifests = <<>> THEN <<>>
  ELSE ManifestTools(Head(manifests)) \o FlatMapTools(Tail(manifests))

\* ToolsEngine.convertManifestsToTools
convertManifestsToTools(manifests) == FlatMapTools(manifests)

\* ------------------------------------------------------------------------
\* generateTools / generateToolsDetailed
\* ------------------------------------------------------------------------
\* Call parameters: toolIds is optional (default []), model, provider.
\* params.context is only handed through to the enablement checker.
ToolIdLists == SeqsUpTo(PluginIds, MaxToolIds)

GenerateToolsParams ==
  [toolIds : {Undefined} \cup {Some(l) : l \in ToolIdLists},
   model : Models, provider : Providers]

\* const { toolIds = [] } = params
ToolIdsOf(params) == IF params.toolIds.defined THEN params.toolIds.value ELSE <<>>

allToolIds_withoutDefaults(params) == ToolIdsOf(params)

\* const allToolIds = [...toolIds, ...this.defaultToolIds]
allToolIds(params) == ToolIdsOf(params) \o defaultToolIds

generateTools_noEmptyCheck(params) ==
  IF ~checkFunctionCallSupport(params.model, params.provider) THEN Undefined
  ELSE LET filtered == filterEnabledPlugins(allToolIds(params), params.model, params.provider)
       IN Some(convertManifestsToTools(filtered.enabledManifests))

\* ToolsEngine.generateTools
generateTools(params) ==
  IF ~checkFunctionCallSupport(params.model, params.provider) THEN Undefined
  ELSE LET filtered == filterEnabledPlugins(allToolIds(params), params.model, params.provider)
       IN IF Len(filtered.enabledManifests) = 0 THEN Undefined
          ELSE Some(convertManifestsToTools(filtered.enabledManifests))

generateToolsDetailed_keepsEmptyList(params) ==
  LET filtered == filterEnabledPlugins(allToolIds(params), params.model, params.provider)
      tools == convertManifestsToTools(filtered.enabledManifests)
  IN [enabledToolIds |-> [i \in 1..Len(filtered.enabledManifests) |->
                            filtered.enabledManifests[i].identifier],
      filteredTools |-> filtered.filteredPlugins,
      tools |-> Some(tools)]

\* ToolsEngine.generateToolsDetailed
generateToolsDetailed(params) ==
  LET filtered == filterEnabledPlugins(allToolIds(params), params.model, params.provider)
      tools == convertManifestsToTools(filtered.enabledManifests)
  IN [enabledToolIds |-> [i \in 1..Len(filtered.enabledManifests) |->
                            filtered.enabledManifests[i].identifier],
      filteredTools |-> filtered.filteredPlugins,
      tools |-> IF Len(tools) > 0 THEN Some(tools) ELSE Undefined]

\* ------------------------------------------------------------------------
\* Registry queries
\* ------------------------------------------------------------------------
\* ToolsEngine.getAvailablePlugins
getAvailablePlugins == MapKeys(manifestSchemas)

\* ToolsEngine.hasPlugin
hasPlugin(pluginId) == MapHas(manifestSchemas, pluginId)

\* ToolsEngine.getPluginManifest
getPluginManifest(pluginId) ==
  IF MapHas(manifestSchemas, pluginId) THEN Some(MapGet(manifestSchemas, pluginId))
  ELSE Undefined

\* ------------------------------------------------------------------------
\* State machine
\* ------------------------------------------------------------------------
SchemaLists == SeqsUpTo(ManifestPool, MaxSchemas)

\* new ToolsEngine(options)
Init ==
  \E schemas \in SchemaLists, defaults \in SeqsUpTo(PluginIds, MaxDefaultToolIds),
     ec \in EnableCheckers, fc \in FunctionCallCheckers, gen \in NameGenerators :
    /\ manifestSchemas = MapFromSchemas(schemas)
    /\ enableChecker = ec
    /\ functionCallChecker = fc
    /\ defaultToolIds = defaults
    /\ options = [generateToolName |-> gen]
    /\ ret = [op |-> "constructor", args |-> schemas, result |-> Undefined]
    /\ LiveIdle /\ PipelineIdle /\ ReorderIdle /\ ServicesIdle

GenerateTools(params) ==
  /\ ret' = [op |-> "generateTools", args |-> params, result |-> generateTools(params)]
  /\ UNCHANGED <<manifestSchemas, enableChecker, functionCallChecker, defaultToolIds, options>>
  /\ UNCHANGED <<liveVars, pipelineVars, reorderVars, serviceVars>>

GenerateToolsDetailed(params) ==
  /\ ret' = [op |-> "generateToolsDetailed", args |-> params,
             result |-> generateToolsDetailed(params)]
  /\ UNCHANGED <<manifestSchemas, enableChecker, functionCallChecker, defaultToolIds, options>>
  /\ UNCHANGED <<liveVars, pipelineVars, reorderVars, serviceVars>>

UpdateManifestSchemas_noClear(schemas) ==
  /\ manifestSchemas' = SetAll(manifestSchemas, schemas)
  /\ ret' = [op |-> "updateManifestSchemas", args |-> schemas, result |-> Undefined]
  /\ UNCHANGED <<enableChecker, functionCallChecker, defaultToolIds, options>>
  /\ UNCHANGED <<liveVars, pipelineVars, reorderVars, serviceVars>>

\* ToolsEngine.updateManifestSchemas
UpdateManifestSchemas(schemas) ==
  /\ manifestSchemas' = SetAll(<<>>, schemas)
  /\ ret' = [op |-> "updateManifestSchemas", args |-> schemas, result |-> Undefined]
  /\ UNCHANGED <<enableChecker, functionCallChecker, defaultToolIds, options>>
  /\ UNCHANGED <<liveVars, pipelineVars, reorderVars, serviceVars>>

AddPluginManifest_keepsExisting(manifest) ==
  /\ manifestSchemas' = IF MapHas(manifestSchemas, manifest.identifier) THEN manifestSchemas
                        ELSE MapSet(manifestSchemas, manifest.identifier, manifest)
  /\ ret' = [op |-> "addPluginManifest", args |-> manifest, result |-> Undefined]
  /\ UNCHANGED <<enableChecker, functionCallChecker, defaultToolIds, options>>
  /\ UNCHANGED <<liveVars, pipelineVars, reorderVars, serviceVars>>

\* ToolsEngine.addPluginManifest
AddPluginManifest(manifest) ==
  /\ manifestSchemas' = MapSet(manifestSchemas, manifest.identifier, manifest)
  /\ ret' = [op |-> "addPluginManifest", args |-> manifest, result |-> Undefined]
  /\ UNCHANGED <<enableChecker, functionCallChecker, defaultToolIds, options>>
  /\ UNCHANGED <<liveVars, pipelineVars, reorderVars, serviceVars>>

RemovePluginManifest_alwaysTrue(pluginId) ==
  /\ manifestSchemas' = MapDelete(manifestSchemas, pluginId)
  /\ ret' = [op |-> "removePluginManifest", args |-> pluginId, result |-> Some(TRUE)]
  /\ UNCHANGED <<enableChecker, functionCallChecker, defaultToolIds, options>>
  /\ UNCHANGED <<liveVars, pipelineVars, reorderVars, serviceVars>>

\* ToolsEngine.removePluginManifest
RemovePluginManifest(pluginId) ==
  /\ manifestSchemas' = MapDelete(manifestSchemas, pluginId)
  /\ ret' = [op |-> "removePluginManifest", args |-> pluginId,
             result |-> Some(MapHas(manifestSchemas, pluginId))]
  /\ UNCHANGED <<enableChecker, functionCallChecker, defaultToolIds, options>>
  /\ UNCHANGED <<liveVars, pipelineVars, reorderVars, serviceVars>>

Next ==
  \/ \E params \in GenerateToolsParams : GenerateTools(params)
  \/ \E params \in GenerateToolsParams : GenerateToolsDetailed(params)
  \/ \E schemas \in SchemaLists : UpdateManifestSchemas(schemas)
  \/ \E manifest \in ManifestPool : AddPluginManifest(manifest)
  \/ \E pluginId \in PluginIds : RemovePluginManifest(pluginId)

Spec == Init /\ [][Next]_vars

TypeOK == ret.op \in {"constructor", "generateTools", "generateToolsDetailed",
                      "updateManifestSchemas", "addPluginManifest", "removePluginManifest"}

\* ------------------------------------------------------------------------
\* Helpers for stating the properties
\* ------------------------------------------------------------------------
IsToolsCall == ret.op \in {"generateTools", "generateToolsDetailed"}

\* The checkers' verdicts, read off the injected functions themselves.
FunctionCallRejected(params) ==
  functionCallChecker.present /\ params.model \notin functionCallChecker.supports

Registered(id) == \E i \in 1..Len(manifestSchemas) : manifestSchemas[i].key = id

ManifestOf(id) ==
  (CHOOSE e \in {manifestSchemas[i] : i \in 1..Len(manifestSchemas)} : e.key = id).value

Rejected(id) == enableChecker.present /\ id \in enableChecker.rejects

Occurrences(seq, x) == Cardinality({i \in 1..Len(seq) : seq[i] = x})

\* The tool list of a call's result (empty when the result carries none).
ReturnedTools ==
  IF ret.op = "generateTools"
    THEN (IF ret.result.defined THEN ret.result.value ELSE <<>>)
    ELSE (IF ret.result.tools.defined THEN ret.result.tools.value ELSE <<>>)

\* The merged ids that are registered and accepted, in merged order.
AcceptedIds(params) ==
  SelectSeq(allToolIds(params), LAMBDA id : Registered(id) /\ ~Rejected(id))

\* seq without the repeated occurrences of an element.
FirstOccurrences(seq) ==
  LET keep == {i \in 1..Len(seq) : \A j \in 1..(i - 1) : seq[j] # seq[i]}
      RECURSIVE pick(_)
      pick(i) == IF i > Len(seq) THEN <<>>
                 ELSE (IF i \in keep THEN <<seq[i]>> ELSE <<>>) \o pick(i + 1)
  IN pick(1)

RECURSIVE ApiEntries(_)
\* One <<identifier, index>> entry per API of each listed id's manifest.
ApiEntries(ids) ==
  IF ids = <<>> THEN <<>>
  ELSE [k \in 1..Len(ManifestOf(Head(ids)).api) |-> [id |-> Head(ids), index |-> k]]
         \o ApiEntries(Tail(ids))

\* ------------------------------------------------------------------------
\* C1
\* ------------------------------------------------------------------------
\* C1: generateTools returns undefined whenever the function-calling checker
\* returns false for (model, provider), whatever the requested ids, the
\* default ids and the registry hold.
C1_AbsentWithoutFunctionCalling ==
  (ret.op = "generateTools" /\ FunctionCallRejected(ret.args)) => ret.result = Undefined

\* generateTools was called for an unsupported model with a registered,
\* accepted id in the request.
C1_Witness ==
  /\ ret.op = "generateTools"
  /\ FunctionCallRejected(ret.args)
  /\ Len(AcceptedIds(ret.args)) > 0
  /\ Len(ApiEntries(AcceptedIds(ret.args))) > 0
  /\ ret.result = Undefined

\* ------------------------------------------------------------------------
\* C2
\* ------------------------------------------------------------------------
\* C2: for every input and registry, the result of generateTools equals the
\* tools field of generateToolsDetailed for the same input on the same registry.
C2_SimpleEqualsDetailedTools ==
  /\ ret.op = "generateTools" => ret.result = generateToolsDetailed(ret.args).tools
  /\ ret.op = "generateToolsDetailed" => ret.result.tools = generateTools(ret.args)

\* ------------------------------------------------------------------------
\* C3
\* ------------------------------------------------------------------------
\* C3: a merged id that is not in the registry is reported by
\* generateToolsDetailed in filteredTools with reason not_found, is not in
\* enabledToolIds, and every returned tool stems from an API of a registered
\* manifest listed in enabledToolIds (so none stems from the missing id).
C3_NotFoundReportedAndExcluded ==
  ret.op = "generateToolsDetailed" =>
    \A i \in 1..Len(allToolIds(ret.args)) :
      LET id == allToolIds(ret.args)[i] IN
      ~Registered(id) =>
        /\ \E j \in 1..Len(ret.result.filteredTools) :
             ret.result.filteredTools[j] = [id |-> id, reason |-> "not_found"]
        /\ \A j \in 1..Len(ret.result.enabledToolIds) : ret.result.enabledToolIds[j] # id
        /\ \A k \in 1..Len(ReturnedTools) :
             \E j \in 1..Len(ret.result.enabledToolIds) :
               LET eid == ret.result.enabledToolIds[j] IN
               /\ eid # id
               /\ Registered(eid)
               /\ \E a \in 1..Len(ManifestOf(eid).api) :
                    ReturnedTools[k].function.name =
                      generateToolName(eid, ManifestOf(eid).api[a].name, ManifestOf(eid).type)

\* A detailed call whose merged ids hold a missing id next to an enabled one.
C3_Witness ==
  /\ ret.op = "generateToolsDetailed"
  /\ \E i \in 1..Len(allToolIds(ret.args)) : ~Registered(allToolIds(ret.args)[i])
  /\ Len(ret.result.enabledToolIds) > 0
  /\ Len(ReturnedTools) > 0
  /\ \E j \in 1..Len(ret.result.filteredTools) : ret.result.filteredTools[j].reason = "not_found"

\* ------------------------------------------------------------------------
\* C4
\* ------------------------------------------------------------------------
InjectiveGenerator == options.generateToolName \in {"none", "qualified"}

DistinctApiNames ==
  \A i \in 1..Len(manifestSchemas) :
    LET api == manifestSchemas[i].value.api IN
    \A x, y \in 1..Len(api) : x # y => api[x].name # api[y].name

\* C4: with an injective name generator and manifests declaring distinct API
\* names, no two tools of a returned tool list share a calling name, also when
\* an id is requested twice or is both requested and a default.
C4_NoSharedCallingName ==
  (IsToolsCall /\ InjectiveGenerator /\ DistinctApiNames) =>
    \A x, y \in 1..Len(ReturnedTools) :
      x # y => ReturnedTools[x].function.name # ReturnedTools[y].function.name

\* ------------------------------------------------------------------------
\* C5
\* ------------------------------------------------------------------------
\* C5: an id occurring more than once in the merged list contributes its
\* manifest once: it appears once in enabledToolIds and its APIs appear once
\* in the tool list.
C5_MergedIdsDeduplicated ==
  ret.op = "generateToolsDetailed" =>
    /\ \A id \in PluginIds : Occurrences(ret.result.enabledToolIds, id) <= 1
    /\ Len(ReturnedTools) = Len(ApiEntries(FirstOccurrences(ret.result.enabledToolIds)))

\* ------------------------------------------------------------------------
\* C6
\* ------------------------------------------------------------------------
\* C6 (as claimed): generateToolsDetailed never returns an absent tool list;
\* with no tool enabled the tools field is an empty list.
C6_DetailedToolsNeverAbsent ==
  ret.op = "generateToolsDetailed" => ret.result.tools.defined

\* C6 (amended): generateToolsDetailed always returns the enabledToolIds list
\* and the filteredTools list, which together account for every merged id;
\* its tools field is the tool list when at least one tool was produced and
\* undefined when none was, never an empty list.
C6_DetailedToolsAbsentIffEmpty ==
  ret.op = "generateToolsDetailed" =>
    /\ Len(ret.result.enabledToolIds) + Len(ret.result.filteredTools)
         = Len(allToolIds(ret.args))
    /\ ret.result.tools.defined <=> Len(ApiEntries(AcceptedIds(ret.args))) > 0
    /\ ret.result.tools.defined => Len(ret.result.tools.value) > 0

\* A detailed call in which every merged id was filtered out.
C6_Witness ==
  /\ ret.op = "generateToolsDetailed"
  /\ ret.result.enabledToolIds = <<>>
  /\ Len(ret.result.filteredTools) > 0
  /\ ret.result.tools = Undefined

\* ------------------------------------------------------------------------
\* C7
\* ------------------------------------------------------------------------
\* C7: when function calling is supported and no merged id resolves to an
\* enabled manifest (empty merged list, ids missing or rejected),
\* generateTools returns undefined.
C7_AbsentWhenNothingEnabled ==
  (/\ ret.op = "generateTools"
   /\ ~FunctionCallRejected(ret.args)
   /\ \A i \in 1..Len(allToolIds(ret.args)) :
        \/ ~Registered(allToolIds(ret.args)[i])
        \/ Rejected(allToolIds(ret.args)[i]))
    => ret.result = Undefined

\* generateTools on a supported model whose merged ids hold a missing id and
\* a rejected one, and nothing else.
C7_Witness ==
  /\ ret.op = "generateTools"
  /\ ~FunctionCallRejected(ret.args)
  /\ \E i \in 1..Len(allToolIds(ret.args)) : ~Registered(allToolIds(ret.args)[i])
  /\ \E i \in 1..Len(allToolIds(ret.args)) :
       Registered(allToolIds(ret.args)[i]) /\ Rejected(allToolIds(ret.args)[i])
  /\ AcceptedIds(ret.args) = <<>>
  /\ ret.result = Undefined

\* ------------------------------------------------------------------------
\* C8
\* ------------------------------------------------------------------------
FilteredIds == [j \in 1..Len(ret.result.filteredTools) |-> ret.result.filteredTools[j].id]

\* C8: resolution classifies every occurrence of a merged id: missing from
\* the registry -> filteredTools with not_found; found but rejected by the
\* enablement checker -> filteredTools with disabled; otherwise enabled. So
\* every occurrence is in exactly one of enabledToolIds and filteredTools.
C8_EveryMergedIdClassified ==
  ret.op = "generateToolsDetailed" =>
    LET merged == allToolIds(ret.args)
        enabled == ret.result.enabledToolIds
        filtered == ret.result.filteredTools
    IN /\ \A id \in PluginIds :
            /\ Occurrences(merged, id) = Occurrences(enabled, id) + Occurrences(FilteredIds, id)
            /\ Occurrences(enabled, id) = 0 \/ Occurrences(FilteredIds, id) = 0
       /\ \A j \in 1..Len(filtered) :
            /\ filtered[j].reason = (IF Registered(filtered[j].id) THEN "disabled" ELSE "not_found")
            /\ Registered(filtered[j].id) => Rejected(filtered[j].id)
       /\ \A j \in 1..Len(enabled) : Registered(enabled[j]) /\ ~Rejected(enabled[j])

\* A detailed call whose merged ids hold an enabled id twice and a rejected id.
C8_Witness ==
  /\ ret.op = "generateToolsDetailed"
  /\ Len(allToolIds(ret.args)) = 3
  /\ Len(ret.result.enabledToolIds) = 2
  /\ ret.result.enabledToolIds[1] = ret.result.enabledToolIds[2]
  /\ \E j \in 1..Len(ret.result.filteredTools) : ret.result.filteredTools[j].reason = "disabled"

\* ------------------------------------------------------------------------
\* C9
\* ------------------------------------------------------------------------
\* C9: a returned tool list holds exactly one tool per API entry of each
\* enabled manifest, in enabled-manifest order and then API declaration
\* order; each tool carries that API's description and parameters and the
\* name generated from (identifier, API name, type); the number of tools is
\* the sum of the enabled manifests' API counts.
C9_OneToolPerApiInOrder ==
  (IsToolsCall /\ (ret.op = "generateTools" => ret.result.defined)) =>
    LET ids == IF ret.op = "generateToolsDetailed" THEN ret.result.enabledToolIds
               ELSE AcceptedIds(ret.args)
        entries == ApiEntries(ids)
    IN /\ Len(ReturnedTools) = Len(entries)
       /\ \A k \in 1..Len(entries) :
            LET m == ManifestOf(entries[k].id)
                api == m.api[entries[k].index]
            IN ReturnedTools[k] =
                 [type |-> "function",
                  function |-> [description |-> api.description,
                                name |-> generateToolName(m.identifier, api.name, m.type),
                                parameters |-> api.parameters]]

\* A call that returned the tools of two enabled manifests, one of them with
\* two APIs.
C9_Witness ==
  /\ IsToolsCall
  /\ Len(ReturnedTools) = 3
  /\ ReturnedTools[1].function.description = "d-bc"
  /\ ReturnedTools[2].function.description = "d-c"
  /\ ReturnedTools[3].function.description = "d-c"

\* ------------------------------------------------------------------------
\* C10
\* ------------------------------------------------------------------------
ApiNames == {"bc", "c"}
ManifestTypes == {"undefined", "default", "builtin"}

NamesDifferForDistinctPairs ==
  \A id1, id2 \in PluginIds, n1, n2 \in ApiNames, t1, t2 \in ManifestTypes :
    <<id1, n1>> # <<id2, n2>> => generateToolName(id1, n1, t1) # generateToolName(id2, n2, t2)

AcceptedOf(ids) == SelectSeq(ids, LAMBDA id : Registered(id) /\ ~Rejected(id))

\* The tools the APIs of the listed ids' manifests convert to.
ToolsOfIds(ids) ==
  [k \in 1..Len(ApiEntries(ids)) |->
     LET m == ManifestOf(ApiEntries(ids)[k].id)
         api == m.api[ApiEntries(ids)[k].index]
     IN [type |-> "function",
         function |-> [description |-> api.description,
                       name |-> generateToolName(m.identifier, api.name, m.type),
                       parameters |-> api.parameters]]]

\* C11: for every requested list (also empty or omitted) each default id that
\* is registered and accepted by the enablement checker is listed in
\* enabledToolIds of generateToolsDetailed after the requested ids, and its
\* tools close the tool list.
C11_DefaultsAlwaysOn ==
  ret.op = "generateToolsDetailed" =>
    LET requested == AcceptedOf(ToolIdsOf(ret.args))
        defaults == AcceptedOf(defaultToolIds)
        enabled == ret.result.enabledToolIds
        skip == Len(ReturnedTools) - Len(ToolsOfIds(defaults))
    IN /\ enabled = requested \o defaults
       /\ skip >= 0
       /\ \A k \in 1..Len(ToolsOfIds(defaults)) : ReturnedTools[skip + k] = ToolsOfIds(defaults)[k]

\* A detailed call with a requested id and a different, accepted default id
\* whose manifest declares an API.
C11_Witness ==
  /\ ret.op = "generateToolsDetailed"
  /\ Len(AcceptedOf(ToolIdsOf(ret.args))) > 0
  /\ Len(AcceptedOf(defaultToolIds)) = 1
  /\ Len(ToolsOfIds(AcceptedOf(defaultToolIds))) > 0
  /\ ret.result.enabledToolIds[1] # defaultToolIds[1]
  /\ ret.result.enabledToolIds[Len(ret.result.enabledToolIds)] = defaultToolIds[1]

\* The omitted-toolIds case of C11: only the defaults are resolved.
C11_WitnessOmitted ==
  /\ ret.op = "generateToolsDetailed"
  /\ ~ret.args.toolIds.defined
  /\ Len(ret.result.enabledToolIds) = 1
  /\ Len(ReturnedTools) > 0

\* ------------------------------------------------------------------------
\* C12
\* ------------------------------------------------------------------------
IdentifiersIn(list) == {list[i].identifier : i \in 1..Len(list)}

LastWith(list, id) ==
  list[CHOOSE i \in 1..Len(list) :
         /\ list[i].identifier = id
         /\ \A j \in (i + 1)..Len(list) : list[j].identifier # id]

\* C12: after updateManifestSchemas(list) the known ids are exactly the
\* identifiers occurring in list, each once, and each maps to the last
\* manifest of list that carries it; nothing registered before survives
\* unless list names it.
C12_BulkReplace ==
  ret.op = "updateManifestSchemas" =>
    /\ {getAvailablePlugins[i] : i \in 1..Len(getAvailablePlugins)} = IdentifiersIn(ret.args)
    /\ Len(getAvailablePlugins) = Cardinality(IdentifiersIn(ret.args))
    /\ \A id \in IdentifiersIn(ret.args) :
         getPluginManifest(id) = Some(LastWith(ret.args, id))
    /\ \A id \in PluginIds \ IdentifiersIn(ret.args) :
         ~hasPlugin(id) /\ getPluginManifest(id) = Undefined

\* A bulk update whose list carries one identifier twice with different manifests.
C12_Witness ==
  /\ ret.op = "updateManifestSchemas"
  /\ Len(ret.args) = 2
  /\ ret.args[1].identifier = ret.args[2].identifier
  /\ ret.args[1] # ret.args[2]
  /\ Len(manifestSchemas) = 1
  /\ manifestSchemas[1].value = ret.args[2]

\* ------------------------------------------------------------------------
\* C13
\* ------------------------------------------------------------------------
EntryOf(map, id) == IF MapHas(map, id) THEN Some(MapGet(map, id)) ELSE Undefined

\* C13: addPluginManifest(m) makes getPluginManifest(m.identifier) return m
\* and hasPlugin(m.identifier) true, replacing what was stored under that
\* identifier, and leaves every other registry entry, the default tool ids
\* and the checkers unchanged.
C13_AddFrame ==
  [][ret'.op = "addPluginManifest" =>
       LET m == ret'.args IN
       /\ MapHas(manifestSchemas', m.identifier)
       /\ EntryOf(manifestSchemas', m.identifier) = Some(m)
       /\ Occurrences(MapKeys(manifestSchemas'), m.identifier) = 1
       /\ \A id \in PluginIds \ {m.identifier} :
            EntryOf(manifestSchemas', id) = EntryOf(manifestSchemas, id)
       /\ defaultToolIds' = defaultToolIds
       /\ enableChecker' = enableChecker
       /\ functionCallChecker' = functionCallChecker
       /\ options' = options]_vars

\* The manifest of an identifier was added while another identifier is
\* registered behind it: the entry was replaced in place.
C13_Witness ==
  /\ ret.op = "addPluginManifest"
  /\ Len(manifestSchemas) = 2
  /\ manifestSchemas[1].key = ret.args.identifier
  /\ manifestSchemas[1].value = ret.args
  /\ Len(ret.args.api) = 0

\* ------------------------------------------------------------------------
\* C14
\* ------------------------------------------------------------------------
\* C14: removePluginManifest(id) returns true exactly when id was registered;
\* afterwards id is not registered, every other entry is unchanged, and
\* removing an unregistered id returns false and changes nothing.
C14_RemoveFrame ==
  [][ret'.op = "removePluginManifest" =>
       LET id == ret'.args IN
       /\ ret'.result = Some(MapHas(manifestSchemas, id))
       /\ ~MapHas(manifestSchemas', id)
       /\ EntryOf(manifestSchemas', id) = Undefined
       /\ \A other \in PluginIds \ {id} :
            EntryOf(manifestSchemas', other) = EntryOf(manifestSchemas, other)
       /\ ~MapHas(manifestSchemas, id) => manifestSchemas' = manifestSchemas
       /\ defaultToolIds' = defaultToolIds]_vars

\* A registered id was removed and another entry is still registered.
C14_Witness ==
  /\ ret.op = "removePluginManifest"
  /\ ret.result = Some(TRUE)
  /\ Len(manifestSchemas) = 1
  /\ manifestSchemas[1].key # ret.args

\* An unregistered id was removed: false, registry untouched.
C14_WitnessUnregistered ==
  /\ ret.op = "removePluginManifest"
  /\ ret.result = Some(FALSE)
  /\ Len(manifestSchemas) = 1

\* ------------------------------------------------------------------------
\* Registry updates interleaved with tool resolutions
\*
\* updateManifestSchemas is taken apart into its steps (clear, one set per
\* schema, return). All ToolsEngine methods are synchronous, so on the
\* single-threaded host a call starts only when no other call is running.
\* ------------------------------------------------------------------------
CallStackEmpty_preemptible == TRUE

\* No ToolsEngine method contains an await: a call runs to completion before
\* the next one starts.
CallStackEmpty == updating.pc = "idle"

InitInterleaved ==
  \E schemas \in SchemaLists :
    /\ manifestSchemas = MapFromSchemas(schemas)
    /\ enableChecker = [present |-> FALSE, rejects |-> {}]
    /\ functionCallChecker = [present |-> FALSE, supports |-> {}]
    /\ defaultToolIds = <<>>
    /\ options = [generateToolName |-> "none"]
    /\ ret = [op |-> "constructor", args |-> schemas, result |-> Undefined]
    /\ updating = IdleUpdate
    /\ lastUpdate = [op |-> "constructor", arg |-> schemas,
                     pre |-> MapFromSchemas(schemas), post |-> MapFromSchemas(schemas)]
    /\ held = Undefined
    /\ PipelineIdle /\ ReorderIdle /\ ServicesIdle

\* updateManifestSchemas, entry: this.manifestSchemas.clear()
BeginUpdate(schemas) ==
  /\ CallStackEmpty
  /\ manifestSchemas' = <<>>
  /\ updating' = [pc |-> "loop", rest |-> schemas, list |-> schemas]
  /\ lastUpdate' = [op |-> "updateManifestSchemas", arg |-> schemas,
                    pre |-> manifestSchemas, post |-> SetAll(<<>>, schemas)]
  /\ UNCHANGED <<enableChecker, functionCallChecker, defaultToolIds, options, ret, held>>
  /\ UNCHANGED <<pipelineVars, reorderVars, serviceVars>>

\* updateManifestSchemas, one iteration: this.manifestSchemas.set(schema.identifier, schema)
StepUpdate ==
  /\ updating.pc = "loop"
  /\ updating.rest # <<>>
  /\ manifestSchemas' = MapSet(manifestSchemas, Head(updating.rest).identifier,
                               Head(updating.rest))
  /\ updating' = [updating EXCEPT !.rest = Tail(@)]
  /\ UNCHANGED <<enableChecker, functionCallChecker, defaultToolIds, options, ret,
                 lastUpdate, held>>
  /\ UNCHANGED <<pipelineVars, reorderVars, serviceVars>>

\* updateManifestSchemas, return
EndUpdate ==
  /\ updating.pc = "loop"
  /\ updating.rest = <<>>
  /\ updating' = IdleUpdate
  /\ ret' = [op |-> "updateManifestSchemas", args |-> updating.list, result |-> Undefined]
  /\ UNCHANGED <<manifestSchemas, enableChecker, functionCallChecker, defaultToolIds,
                 options, lastUpdate, held>>
  /\ UNCHANGED <<pipelineVars, reorderVars, serviceVars>>

\* generateTools called while the engine is shared with an updater; read is
\* the registry the call resolved against.
InterleavedGenerateTools(params) ==
  /\ CallStackEmpty
  /\ ret' = [op |-> "generateTools", args |-> params, result |-> generateTools(params),
             read |-> manifestSchemas]
  /\ UNCHANGED <<manifestSchemas, enableChecker, functionCallChecker, defaultToolIds,
                 options, liveVars>>
  /\ UNCHANGED <<pipelineVars, reorderVars, serviceVars>>

\* generateToolsDetailed called while the engine is shared with an updater.
InterleavedGenerateToolsDetailed(params) ==
  /\ CallStackEmpty
  /\ ret' = [op |-> "generateToolsDetailed", args |-> params,
             result |-> generateToolsDetailed(params), read |-> manifestSchemas]
  /\ UNCHANGED <<manifestSchemas, enableChecker, functionCallChecker, defaultToolIds,
                 options, liveVars>>
  /\ UNCHANGED <<pipelineVars, reorderVars, serviceVars>>

InterleavedAdd_keepsExisting(manifest) ==
  /\ CallStackEmpty
  /\ manifestSchemas' = IF MapHas(manifestSchemas, manifest.identifier) THEN manifestSchemas
                        ELSE MapSet(manifestSchemas, manifest.identifier, manifest)
  /\ lastUpdate' = [op |-> "addPluginManifest", arg |-> manifest,
                    pre |-> manifestSchemas, post |-> manifestSchemas']
  /\ ret' = [op |-> "addPluginManifest", args |-> manifest, result |-> Undefined]
  /\ UNCHANGED <<enableChecker, functionCallChecker, defaultToolIds, options,
                 updating, held>>
  /\ UNCHANGED <<pipelineVars, reorderVars, serviceVars>>

\* addPluginManifest: one Map.set
InterleavedAdd(manifest) ==
  /\ CallStackEmpty
  /\ manifestSchemas' = MapSet(manifestSchemas, manifest.identifier, manifest)
  /\ lastUpdate' = [op |-> "addPluginManifest", arg |-> manifest,
                    pre |-> manifestSchemas, post |-> manifestSchemas']
  /\ ret' = [op |-> "addPluginManifest", args |-> manifest, result |-> Undefined]
  /\ UNCHANGED <<enableChecker, functionCallChecker, defaultToolIds, options,
                 updating, held>>
  /\ UNCHANGED <<pipelineVars, reorderVars, serviceVars>>

\* removePluginManifest: one Map.delete
InterleavedRemove(pluginId) ==
  /\ CallStackEmpty
  /\ manifestSchemas' = MapDelete(manifestSchemas, pluginId)
  /\ lastUpdate' = [op |-> "removePluginManifest", arg |-> pluginId,
                    pre |-> manifestSchemas, post |-> manifestSchemas']
  /\ ret' = [op |-> "removePluginManifest", args |-> pluginId,
             result |-> Some(MapHas(manifestSchemas, pluginId))]
  /\ UNCHANGED <<enableChecker, functionCallChecker, defaultToolIds, options,
                 updating, held>>
  /\ UNCHANGED <<pipelineVars, reorderVars, serviceVars>>

NextInterleaved ==
  \/ \E schemas \in SchemaLists : BeginUpdate(schemas)
  \/ StepUpdate
  \/ EndUpdate
  \/ \E params \in GenerateToolsParams : InterleavedGenerateTools(params)
  \/ \E params \in GenerateToolsParams : InterleavedGenerateToolsDetailed(params)
  \/ \E manifest \in ManifestPool : InterleavedAdd(manifest)
  \/ \E pluginId \in PluginIds : InterleavedRemove(pluginId)

SpecInterleaved == InitInterleaved /\ [][NextInterleaved]_vars

\* ------------------------------------------------------------------------
\* C15
\* ------------------------------------------------------------------------
\* C15: a tool resolution running alongside registry updates (add, remove,
\* bulk replace = clear then one insertion per manifest) resolves against
\* the complete registry of before the update or the complete registry of
\* after it, never against an emptied or partially refilled one.
C15_ResolutionSeesCompleteRegistry ==
  IsToolsCall => ret.read \in {lastUpdate.pre, lastUpdate.post}

\* A resolution that followed a two-manifest bulk replace of a non-empty
\* registry and resolved against the replaced registry.
C15_Witness ==
  /\ IsToolsCall
  /\ lastUpdate.op = "updateManifestSchemas"
  /\ lastUpdate.pre # <<>>
  /\ Len(lastUpdate.post) = 2
  /\ lastUpdate.pre # lastUpdate.post
  /\ ret.read = lastUpdate.post
  /\ Len(ReturnedTools) > 0

\* ------------------------------------------------------------------------
\* Hot updates between runs: a caller keeps the result of its last resolution
\* while the registry is updated.
\* ------------------------------------------------------------------------
\* Resolutions that request one id.
SingleIdParams ==
  [toolIds : {Some(<<id>>) : id \in PluginIds}, model : Models, provider : Providers]

\* Checker configurations of the engine under hot update: no checker, an
\* enablement checker that rejects "ab", a function calling checker that
\* supports no model.
HotCheckers ==
  { [enable |-> ec, functionCall |-> fc] :
      ec \in EnableCheckers, fc \in FunctionCallCheckers } \cap
  { [enable |-> [present |-> FALSE, rejects |-> {}],
     functionCall |-> [present |-> FALSE, supports |-> {}]],
    [enable |-> [present |-> TRUE, rejects |-> {"ab"}],
     functionCall |-> [present |-> FALSE, supports |-> {}]],
    [enable |-> [present |-> FALSE, rejects |-> {}],
     functionCall |-> [present |-> TRUE, supports |-> {}]] }

InitHotUpdate ==
  \E schemas \in SchemaLists, checkers \in HotCheckers :
    /\ manifestSchemas = MapFromSchemas(schemas)
    /\ enableChecker = checkers.enable
    /\ functionCallChecker = checkers.functionCall
    /\ defaultToolIds = <<>>
    /\ options = [generateToolName |-> "none"]
    /\ ret = [op |-> "constructor", args |-> schemas, result |-> Undefined]
    /\ updating = IdleUpdate
    /\ lastUpdate = [op |-> "constructor", arg |-> schemas,
                     pre |-> MapFromSchemas(schemas), post |-> MapFromSchemas(schemas)]
    /\ held = Undefined
    /\ PipelineIdle /\ ReorderIdle /\ ServicesIdle

\* const tools = engine.generateTools(params), kept by the caller
HeldGenerateTools(params) ==
  /\ CallStackEmpty
  /\ ret' = [op |-> "generateTools", args |-> params, result |-> generateTools(params),
             read |-> manifestSchemas]
  /\ held' = Some([op |-> "generateTools", args |-> params,
                   result |-> generateTools(params), from |-> manifestSchemas])
  /\ UNCHANGED <<manifestSchemas, enableChecker, functionCallChecker, defaultToolIds,
                 options, updating, lastUpdate>>
  /\ UNCHANGED <<pipelineVars, reorderVars, serviceVars>>

\* const result = engine.generateToolsDetailed(params), kept by the caller
HeldGenerateToolsDetailed(params) ==
  /\ CallStackEmpty
  /\ ret' = [op |-> "generateToolsDetailed", args |-> params,
             result |-> generateToolsDetailed(params), read |-> manifestSchemas]
  /\ held' = Some([op |-> "generateToolsDetailed", args |-> params,
                   result |-> generateToolsDetailed(params), from |-> manifestSchemas])
  /\ UNCHANGED <<manifestSchemas, enableChecker, functionCallChecker, defaultToolIds,
                 options, updating, lastUpdate>>
  /\ UNCHANGED <<pipelineVars, reorderVars, serviceVars>>

NextHotUpdate ==
  \/ \E schemas \in SchemaLists : BeginUpdate(schemas)
  \/ StepUpdate
  \/ EndUpdate
  \/ \E params \in SingleIdParams : HeldGenerateTools(params)
  \/ \E params \in SingleIdParams : HeldGenerateToolsDetailed(params)
  \/ \E manifest \in ManifestPool : InterleavedAdd(manifest)
  \/ \E pluginId \in PluginIds : InterleavedRemove(pluginId)

SpecHotUpdate == InitHotUpdate /\ [][NextHotUpdate]_vars

\* ------------------------------------------------------------------------
\* C16
\* ------------------------------------------------------------------------
\* The tools a manifest's APIs convert to under the default name generator.
ExpectedTools(m) ==
  [k \in 1..Len(m.api) |->
     [type |-> "function",
      function |-> [description |-> m.api[k].description,
                    name |-> DefaultGenerateToolName(m.identifier, m.api[k].name, m.type),
                    parameters |-> m.api[k].parameters]]]

ToolsIn(call) ==
  IF call.op = "generateTools"
    THEN (IF call.result.defined THEN call.result.value ELSE <<>>)
    ELSE (IF call.result.tools.defined THEN call.result.tools.value ELSE <<>>)

\* Entry of id in a registry value (a Map as entry sequence).
Lookup(map, id) ==
  LET hits == {i \in 1..Len(map) : map[i].key = id}
  IN IF hits = {} THEN Undefined ELSE Some(map[CHOOSE i \in hits : TRUE].value)

\* The checkers turn the requested id of a call down.
TurnedDown(call) ==
  \/ Rejected(call.args.toolIds.value[1])
  \/ call.op = "generateTools" /\ FunctionCallRejected(call.args)

LastCall == [op |-> ret.op, args |-> ret.args]

\* The kept result still is what the registry of its own run yields.
HeldMatchesItsRun ==
  held.defined =>
    LET id == held.value.args.toolIds.value[1]
        entry == Lookup(held.value.from, id)
    IN ToolsIn(held.value) =
         (IF entry.defined /\ ~TurnedDown(held.value) THEN ExpectedTools(entry.value)
          ELSE <<>>)

\* A step that changes the registry leaves the kept result as it is.
ChangeLeavesHeldResult ==
  (lastUpdate' # lastUpdate \/ manifestSchemas' # manifestSchemas) => held' = held

\* After removePluginManifest(id), a resolution requesting id finds nothing.
RemovedIdNotFound ==
  (IsToolsCall /\ lastUpdate.op = "removePluginManifest"
     /\ ret.args.toolIds.value[1] = lastUpdate.arg) =>
    /\ ReturnedTools = <<>>
    /\ ret.op = "generateToolsDetailed" =>
         /\ ret.result.filteredTools = <<[id |-> lastUpdate.arg, reason |-> "not_found"]>>
         /\ ret.result.enabledToolIds = <<>>

AfterAddRequested ==
  /\ IsToolsCall
  /\ lastUpdate.op = "addPluginManifest"
  /\ ret.args.toolIds.value[1] = lastUpdate.arg.identifier

\* After addPluginManifest(m), a resolution requesting m.identifier returns
\* m's tools.
AddedToolsIncluded ==
  AfterAddRequested => ReturnedTools = ExpectedTools(lastUpdate.arg)

\* After addPluginManifest(m), a resolution requesting m.identifier resolves
\* it to m: the id is never not_found, and m's tools are returned unless the
\* checkers turn the id down.
AddedManifestUsed ==
  AfterAddRequested =>
    /\ ReturnedTools =
         (IF TurnedDown(LastCall) THEN <<>> ELSE ExpectedTools(lastUpdate.arg))
    /\ ret.op = "generateToolsDetailed" =>
         \A j \in 1..Len(ret.result.filteredTools) :
           ret.result.filteredTools[j].reason # "not_found"

\* C16 as stated: a registry change made between runs takes effect in the
\* next run and never in a finished one: after removePluginManifest(id) the
\* next generateToolsDetailed requesting id reports it not_found, after
\* addPluginManifest(m) the next resolution requesting m.identifier includes
\* m's tools, and a result returned before a change keeps the data of the
\* registry it was built from.
C16_AddedToolsAlwaysIncluded ==
  /\ [](RemovedIdNotFound /\ AddedToolsIncluded /\ HeldMatchesItsRun)
  /\ [][ChangeLeavesHeldResult]_vars

\* C16 amended: as above, but after addPluginManifest(m) the next resolution
\* requesting m.identifier includes m's tools only when the enablement checker
\* accepts the id and, for generateTools, the model supports function
\* calling; otherwise the id is reported disabled or no tools are returned.
C16_ChangesTakeEffectNextRun ==
  /\ [](RemovedIdNotFound /\ AddedManifestUsed /\ HeldMatchesItsRun)
  /\ [][ChangeLeavesHeldResult]_vars

\* A kept result with tools, built from a manifest that has since been
\* replaced by addPluginManifest.
C16_Witness ==
  /\ held.defined
  /\ Len(ToolsIn(held.value)) = 2
  /\ lastUpdate.op = "addPluginManifest"
  /\ ret.op = "addPluginManifest"
  /\ lastUpdate.arg.identifier = held.value.args.toolIds.value[1]
  /\ Len(lastUpdate.arg.api) = 0
  /\ held.value.from # manifestSchemas

\* The next run after a replacement used the new manifest.
C16_WitnessNextRun ==
  /\ AfterAddRequested
  /\ Lookup(lastUpdate.pre, lastUpdate.arg.identifier).defined
  /\ Lookup(lastUpdate.pre, lastUpdate.arg.identifier) # Some(lastUpdate.arg)
  /\ Len(ReturnedTools) = 2

\* The next run after removePluginManifest of a registered id.
C16_WitnessRemoved ==
  /\ ret.op = "generateToolsDetailed"
  /\ lastUpdate.op = "removePluginManifest"
  /\ ret.args.toolIds.value[1] = lastUpdate.arg
  /\ Lookup(lastUpdate.pre, lastUpdate.arg).defined

\* ------------------------------------------------------------------------
\* Context engineering pipeline (contextEngineering.ts)
\* ------------------------------------------------------------------------
\* Concurrent requests, one per conversation.
Conversations == {"c1", "c2"}

\* Input fields of a call that configure the stages.
ContextInputs == [enableHistoryCount : BOOLEAN, isWelcomeQuestion : BOOLEAN]

NoFault == [defined |-> FALSE, value |-> ""]

pipeline_configurable(input) ==
  LET all == << "HistoryTruncateProcessor", "SystemRoleInjector", "InboxGuideProvider",
                "ToolSystemRoleProvider", "HistorySummaryProvider",
                "InputTemplateProcessor", "PlaceholderVariablesProcessor",
                "MessageContentProcessor", "ToolCallProcessor", "ToolMessageReorder",
                "MessageCleanupProcessor" >>
  IN IF input.enableHistoryCount THEN all ELSE Tail(all)

\* new ContextEngine({ pipeline: [...] }): the processors in array order.
pipeline(input) ==
  << "HistoryTruncateProcessor", "SystemRoleInjector", "InboxGuideProvider",
     "ToolSystemRoleProvider", "HistorySummaryProvider", "InputTemplateProcessor",
     "PlaceholderVariablesProcessor", "MessageContentProcessor", "ToolCallProcessor",
     "ToolMessageReorder", "MessageCleanupProcessor" >>

\* const initialState: AgentState = { messages, ... } of the call for
\* conversation c; applied lists the stages the state has been through.
initialState(c) == [owner |-> c, applied |-> <<>>]

NotInvoked ==
  [pc |-> "idle", input |-> [enableHistoryCount |-> FALSE, isWelcomeQuestion |-> FALSE],
   pipeline |-> <<>>, state |-> [owner |-> "", applied |-> <<>>], active |-> {},
   started |-> <<>>, received |-> <<>>, produced |-> <<>>,
   output |-> Undefined, fault |-> NoFault, surfaced |-> NoFault]

NewRun(c, input) ==
  [pc |-> "ready", input |-> input, pipeline |-> pipeline(input),
   state |-> initialState(c), active |-> {},
   started |-> <<>>, received |-> <<>>, produced |-> <<>>,
   output |-> Undefined, fault |-> NoFault, surfaced |-> NoFault]

\* No tools engine in use.
EngineIdle ==
  /\ manifestSchemas = <<>>
  /\ enableChecker = [present |-> FALSE, rejects |-> {}]
  /\ functionCallChecker = [present |-> FALSE, supports |-> {}]
  /\ defaultToolIds = <<>>
  /\ options = [generateToolName |-> "none"]
  /\ ret = [op |-> "constructor", args |-> <<>>, result |-> Undefined]

InitPipeline ==
  /\ runs = [c \in Conversations |-> NotInvoked]
  /\ EngineIdle /\ LiveIdle /\ ReorderIdle /\ ServicesIdle

Invoke_sharedState(c, input) ==
  /\ runs[c].pc = "idle"
  /\ runs' = [d \in Conversations |->
                IF d = c THEN NewRun(c, input)
                ELSE IF runs[d].pc = "idle" THEN runs[d]
                ELSE [runs[d] EXCEPT !.state = initialState(c)]]
  /\ UNCHANGED <<engineVars, liveVars, reorderVars, serviceVars>>

\* contextEngineering({...}): a new ContextEngine and a new initialState per
\* call, then pipeline.process is entered.
Invoke(c, input) ==
  /\ runs[c].pc = "idle"
  /\ runs' = [runs EXCEPT ![c] = NewRun(c, input)]
  /\ UNCHANGED <<engineVars, liveVars, reorderVars, serviceVars>>

\* The runner invokes the next processor on the state it holds.
StartStage(c) ==
  LET r == runs[c]
      k == Len(r.started) + 1
  IN /\ r.pc = "ready"
     /\ k <= Len(r.pipeline)
     /\ runs' = [runs EXCEPT ![c] =
                   [r EXCEPT !.pc = "running",
                             !.active = r.active \cup {k},
                             !.started = Append(r.started, r.pipeline[k]),
                             !.received = Append(r.received, r.state)]]
     /\ UNCHANGED <<engineVars, liveVars, reorderVars, serviceVars>>

\* The awaited processor resolves with a new state, which the runner keeps.
CompleteStage(c) ==
  LET r == runs[c]
      k == Len(r.started)
      new == [owner |-> r.received[k].owner,
              applied |-> Append(r.received[k].applied, r.pipeline[k])]
  IN /\ r.pc = "running"
     /\ runs' = [runs EXCEPT ![c] =
                   [r EXCEPT !.pc = IF k < Len(r.pipeline) THEN "ready" ELSE "done",
                             !.active = r.active \ {k},
                             !.state = new,
                             !.produced = Append(r.produced, new)]]
     /\ UNCHANGED <<engineVars, liveVars, reorderVars, serviceVars>>

\* The awaited processor raises a fault: the runner stops and rethrows.
FaultStage(c) ==
  LET r == runs[c]
      k == Len(r.started)
  IN /\ r.pc = "running"
     /\ runs' = [runs EXCEPT ![c] =
                   [r EXCEPT !.pc = "faulted",
                             !.active = r.active \ {k},
                             !.fault = Some(r.pipeline[k])]]
     /\ UNCHANGED <<engineVars, liveVars, reorderVars, serviceVars>>

\* await pipeline.process(...) rejects; contextEngineering has no try/catch,
\* so its own promise rejects with the same fault.
Reject(c) ==
  /\ runs[c].pc = "faulted"
  /\ runs' = [runs EXCEPT ![c] = [runs[c] EXCEPT !.pc = "rejected",
                                                 !.surfaced = runs[c].fault]]
  /\ UNCHANGED <<engineVars, liveVars, reorderVars, serviceVars>>

Return_partial(c) ==
  /\ runs[c].pc \in {"done", "ready"}
  /\ runs' = [runs EXCEPT ![c] = [runs[c] EXCEPT !.pc = "returned",
                                                 !.output = Some(runs[c].state.applied)]]
  /\ UNCHANGED <<engineVars, liveVars, reorderVars, serviceVars>>

\* const result = await pipeline.process(...); return result.messages
Return(c) ==
  /\ runs[c].pc = "done"
  /\ runs' = [runs EXCEPT ![c] = [runs[c] EXCEPT !.pc = "returned",
                                                 !.output = Some(runs[c].state.applied)]]
  /\ UNCHANGED <<engineVars, liveVars, reorderVars, serviceVars>>

NextPipeline ==
  \/ \E c \in Conversations, input \in ContextInputs : Invoke(c, input)
  \/ \E c \in Conversations : StartStage(c)
  \/ \E c \in Conversations : CompleteStage(c)
  \/ \E c \in Conversations : FaultStage(c)
  \/ \E c \in Conversations : Reject(c)
  \/ \E c \in Conversations : Return(c)

SpecPipeline == InitPipeline /\ [][NextPipeline]_vars

IsPrefix(s, t) == Len(s) <= Len(t) /\ \A i \in 1..Len(s) : s[i] = t[i]

\* ------------------------------------------------------------------------
\* C17
\* ------------------------------------------------------------------------
ElevenStagesInOrder ==
  << "HistoryTruncateProcessor", "SystemRoleInjector", "InboxGuideProvider",
     "ToolSystemRoleProvider", "HistorySummaryProvider", "InputTemplateProcessor",
     "PlaceholderVariablesProcessor", "MessageContentProcessor", "ToolCallProcessor",
     "ToolMessageReorder", "MessageCleanupProcessor" >>

\* C17: every invocation of contextEngineering runs the same eleven stages in
\* the same order whatever its input fields are: history truncation first,
\* then system role, inbox guide, tool system role, history summary, input
\* template, placeholder variables, message content, tool calls, tool message
\* reordering, and message cleanup last.
C17_SameElevenStagesInOrder ==
  \A c \in Conversations :
    /\ IsPrefix(runs[c].started, ElevenStagesInOrder)
    /\ runs[c].pc \in {"done", "returned"} => runs[c].started = ElevenStagesInOrder

\* Two finished invocations with different inputs.
C17_Witness ==
  /\ runs["c1"].pc = "returned" /\ runs["c2"].pc = "returned"
  /\ runs["c1"].input.enableHistoryCount /\ ~runs["c2"].input.enableHistoryCount
  /\ runs["c1"].input.isWelcomeQuestion # runs["c2"].input.isWelcomeQuestion
  /\ Len(runs["c1"].started) = 11 /\ Len(runs["c2"].started) = 11

\* ------------------------------------------------------------------------
\* C18
\* ------------------------------------------------------------------------
SingleFlow(c) ==
  LET r == runs[c]
  IN /\ Cardinality(r.active) <= 1
     /\ Len(r.started) <= Len(r.produced) + 1
     /\ r.active # {} => r.active = {Len(r.produced) + 1}
     /\ \A k \in 1..Len(r.received) :
          r.received[k] = IF k = 1 THEN [owner |-> c, applied |-> <<>>]
                          ELSE r.produced[k - 1]
     /\ \A k \in 1..Len(r.produced) :
          r.produced[k] = [owner |-> c, applied |-> SubSeq(r.started, 1, k)]

OneRunPerStep ==
  \A c \in Conversations, d \in Conversations :
    (c # d /\ runs'[c] # runs[c]) => runs'[d] = runs[d]

AllOrNothing(c) ==
  LET r == runs[c]
  IN /\ r.output.defined =>
          /\ r.pc = "returned"
          /\ Len(r.produced) = 11
          /\ r.output.value = r.produced[11].applied
          /\ r.output.value = ElevenStagesInOrder
          /\ ~r.fault.defined
     /\ r.fault.defined =>
          /\ ~r.output.defined
          /\ Len(r.started) = Len(r.produced) + 1
          /\ r.fault.value = r.started[Len(r.started)]
          /\ r.active = {}
     /\ r.pc = "rejected" => r.surfaced.defined /\ r.surfaced.value = r.fault.value
     /\ r.surfaced.defined => r.pc = "rejected"

AbortIsFinal ==
  \A c \in Conversations :
    runs[c].fault.defined =>
      /\ runs'[c].started = runs[c].started
      /\ runs'[c].produced = runs[c].produced
      /\ runs'[c].output = runs[c].output
      /\ runs'[c].fault = runs[c].fault

\* C19: a run yields no partial output: contextEngineering returns the
\* message list produced after all eleven stages completed, or, when a stage
\* raises a fault, the run stops at that stage (no later stage, no retry) and
\* the caller gets that fault and no message list.
C19_CompleteListOrFault ==
  /\ [](\A c \in Conversations : AllOrNothing(c))
  /\ [][AbortIsFinal]_vars

\* One run rejected with the fault of its fifth stage, another returned.
C19_Witness ==
  /\ runs["c1"].pc = "rejected"
  /\ runs["c1"].surfaced.value = "HistorySummaryProvider"
  /\ Len(runs["c1"].produced) = 4
  /\ runs["c2"].pc = "returned"

\* ------------------------------------------------------------------------
\* Tool message reordering (stage 10 of the pipeline)
\* ------------------------------------------------------------------------
UserMessage(id) ==
  [id |-> id, role |-> "user", calls |-> <<>>, owner |-> "", orphan |-> FALSE]

\* An assistant message declaring the tool invocations calls, in order.
AssistantMessage(id, calls) ==
  [id |-> id, role |-> "assistant", calls |-> calls, owner |-> "", orphan |-> FALSE]

\* A tool result answering the invocation owner.
ToolMessage(id, owner) ==
  [id |-> id, role |-> "tool", calls |-> <<>>, owner |-> owner, orphan |-> FALSE]

\* Two users, an assistant declaring a then b, an assistant declaring c, the
\* results of a, b and c, and a result of an invocation nobody declared.
MessagePool ==
  { UserMessage("u1"), UserMessage("u2"),
    AssistantMessage("A", <<"a", "b">>), AssistantMessage("C", <<"c">>),
    ToolMessage("ta", "a"), ToolMessage("tb", "b"), ToolMessage("tc", "c"),
    ToolMessage("tx", "x") }

\* Message lists without repeated messages.
MessageLists ==
  { l \in SeqsUpTo(MessagePool, MaxMessages) :
      \A i \in 1..Len(l), j \in 1..Len(l) : i # j => l[i] # l[j] }

Elements(seq) == {seq[i] : i \in 1..Len(seq)}

RECURSIVE Flatten(_)
Flatten(seqs) == IF seqs = <<>> THEN <<>> ELSE Head(seqs) \o Flatten(Tail(seqs))

\* Number of the turn of the i-th message: a user message opens a new turn.
TurnIndex(msgs, i) == Cardinality({j \in 1..i : msgs[j].role = "user"})

\* The messages of turn t, in order.
Turn(msgs, t) ==
  LET at == {i \in 1..Len(msgs) : TurnIndex(msgs, i) = t}
  IN IF at = {} THEN <<>>
     ELSE SubSeq(msgs, CHOOSE i \in at : \A j \in at : i <= j,
                       CHOOSE i \in at : \A j \in at : j <= i)

\* Some assistant message of the turn declared the invocation m answers.
HasOwner(turn, m) ==
  \E a \in Elements(turn) : a.role = "assistant" /\ m.owner \in Elements(a.calls)

\* The results of assistant a within the turn, in declaration order.
ResultsOf(turn, a) ==
  Flatten([k \in 1..Len(a.calls) |->
             SelectSeq(turn, LAMBDA m : m.role = "tool" /\ m.owner = a.calls[k])])

ReorderTurn(turn) ==
  LET kept == SelectSeq(turn, LAMBDA m : m.role # "tool")
      orphans == SelectSeq(turn, LAMBDA m : m.role = "tool" /\ ~HasOwner(turn, m))
  IN Flatten([k \in 1..Len(kept) |->
                IF kept[k].role = "assistant"
                  THEN <<kept[k]>> \o ResultsOf(turn, kept[k])
                  ELSE <<kept[k]>>])
     \o [k \in 1..Len(orphans) |-> [orphans[k] EXCEPT !.orphan = TRUE]]

\* ToolMessageReorder: turn by turn.
ToolMessageReorder(msgs) ==
  Flatten([t \in 1..(TurnIndex(msgs, Len(msgs)) + 1) |-> ReorderTurn(Turn(msgs, t - 1))])

InitReorder ==
  /\ reorderIn \in MessageLists
  /\ reorderOut = Undefined
  /\ EngineIdle /\ LiveIdle /\ PipelineIdle /\ ServicesIdle

ApplyReorder_skipped ==
  /\ ~reorderOut.defined
  /\ reorderOut' = Some(reorderIn)
  /\ UNCHANGED <<reorderIn, engineVars, liveVars, pipelineVars, serviceVars>>

\* Stage 10, new ToolMessageReorder(), applied to the messages of the state.
ApplyReorder ==
  /\ ~reorderOut.defined
  /\ reorderOut' = Some(ToolMessageReorder(reorderIn))
  /\ UNCHANGED <<reorderIn, engineVars, liveVars, pipelineVars, serviceVars>>

NextReorder == ApplyReorder

SpecReorder == InitReorder /\ [][NextReorder]_vars

\* ------------------------------------------------------------------------
\* C20
\* ------------------------------------------------------------------------
Unflagged(m) == [m EXCEPT !.orphan = FALSE]

PositionOf(seq, m) == CHOOSE i \in 1..Len(seq) : Unflagged(seq[i]) = Unflagged(m)

\* Position of the assistant message of the same turn that declared the
\* invocation seq[i] answers, 0 when there is none.
OwnerPosition(seq, i) ==
  LET owners == {p \in 1..Len(seq) :
                   /\ seq[p].role = "assistant"
                   /\ seq[i].owner \in Elements(seq[p].calls)
                   /\ TurnIndex(seq, p) = TurnIndex(seq, i)}
  IN IF seq[i].role = "tool" /\ owners # {} THEN CHOOSE p \in owners : TRUE ELSE 0

DeclarationIndex(a, m) == CHOOSE k \in 1..Len(a.calls) : a.calls[k] = m.owner

Reordered(in, out) ==
  \* the same messages, each in the turn it was in
  /\ Len(out) = Len(in)
  /\ {Unflagged(out[i]) : i \in 1..Len(out)} = Elements(in)
  /\ \A i \in 1..Len(out) : TurnIndex(out, i) = TurnIndex(in, PositionOf(in, out[i]))
  \* user and assistant messages in their input order
  /\ SelectSeq(out, LAMBDA m : m.role # "tool") = SelectSeq(in, LAMBDA m : m.role # "tool")
  \* owned results follow their assistant, contiguous, in declaration order
  /\ \A i \in 1..Len(out) :
       LET p == OwnerPosition(out, i)
       IN (out[i].role = "tool" /\ p # 0) =>
            /\ p < i
            /\ ~out[i].orphan
            /\ \A j \in (p + 1)..i :
                 /\ out[j].role = "tool"
                 /\ OwnerPosition(out, j) = p
                 /\ DeclarationIndex(out[p], out[j]) <= DeclarationIndex(out[p], out[i])
  \* orphans are kept at the end of their turn
  /\ \A i \in 1..Len(out) :
       (out[i].role = "tool" /\ OwnerPosition(out, i) = 0) =>
         \A j \in i..Len(out) :
           TurnIndex(out, j) = TurnIndex(out, i) =>
             out[j].role = "tool" /\ OwnerPosition(out, j) = 0

\* C20: after tool message reordering, within every turn each tool result
\* whose owner exists directly follows its owning assistant message with no
\* non-tool message in between, the results of one assistant message are
\* contiguous in declaration order ([assistant(a,b), b, a] becomes
\* [assistant, a, b]), orphaned results stay at the end of their turn, no
\* message changes turn, and user and assistant messages keep their order.
C20_ResultsFollowOwnerWithinTurn ==
  reorderOut.defined =>
    /\ Reordered(reorderIn, reorderOut.value)
    /\ reorderIn = <<AssistantMessage("A", <<"a", "b">>), ToolMessage("tb", "b"),
                     ToolMessage("ta", "a")>>
         => reorderOut.value = <<AssistantMessage("A", <<"a", "b">>),
                                 ToolMessage("ta", "a"), ToolMessage("tb", "b")>>

\* The scenario [assistant(a,b), b, a] reordered.
C20_Witness ==
  /\ reorderOut.defined
  /\ reorderIn = <<AssistantMessage("A", <<"a", "b">>), ToolMessage("tb", "b"),
                   ToolMessage("ta", "a")>>
  /\ reorderOut.value # reorderIn

\* An orphan ahead of an assistant message is moved to the end of its turn,
\* and a result separated from its owner by a user message stays in its turn.
C20_WitnessOrphanAndBoundary ==
  /\ reorderOut.defined
  /\ reorderIn = <<ToolMessage("tx", "x"), AssistantMessage("C", <<"c">>),
                   UserMessage("u1"), ToolMessage("tc", "c")>>
  /\ reorderOut.value[2].id = "tx" /\ reorderOut.value[2].orphan
  /\ reorderOut.value[4].id = "tc" /\ reorderOut.value[4].orphan

\* ------------------------------------------------------------------------
\* C25
\* ------------------------------------------------------------------------
\* C25: generateTools never returns an empty list: its result is absent or a
\* list with at least one tool, also when the enabled manifests declare no
\* APIs.
C25_NeverEmptyList ==
  (ret.op = "generateTools" /\ ret.result.defined) => Len(ret.result.value) > 0

\* ------------------------------------------------------------------------
\* C26
\* ------------------------------------------------------------------------
\* C26: after any sequence of constructor, addPluginManifest,
\* removePluginManifest and updateManifestSchemas calls every stored manifest
\* is keyed by its own identifier, no identifier occurs twice, and for every
\* id hasPlugin, getPluginManifest and getAvailablePlugins agree.
C26_RegistrySelfConsistent ==
  /\ \A i \in 1..Len(manifestSchemas) :
       manifestSchemas[i].key = manifestSchemas[i].value.identifier
  /\ \A i \in 1..Len(manifestSchemas), j \in 1..Len(manifestSchemas) :
       i # j => manifestSchemas[i].key # manifestSchemas[j].key
  /\ \A id \in PluginIds :
       /\ hasPlugin(id) <=> getPluginManifest(id).defined
       /\ hasPlugin(id) <=> id \in Elements(getAvailablePlugins)
       /\ getPluginManifest(id).defined => getPluginManifest(id).value.identifier = id

\* A bulk update whose list names one identifier twice left one entry, the
\* later manifest.
C26_Witness ==
  /\ ret.op = "updateManifestSchemas"
  /\ Len(ret.args) = 2
  /\ ret.args[1].identifier = ret.args[2].identifier
  /\ ret.args[1] # ret.args[2]
  /\ Len(manifestSchemas) = 1
  /\ getPluginManifest(ret.args[2].identifier) = Some(ret.args[2])

\* ------------------------------------------------------------------------
\* C28
\* ------------------------------------------------------------------------
\* The requested and default ids found in the registry, in merged order.
PresentIds(params) == SelectSeq(ToolIdsOf(params) \o defaultToolIds, Registered)

\* C28: without a function-call checker function calling counts as supported
\* for every (model, provider); without an enablement checker every manifest
\* found in the registry is enabled; an engine with neither checker offers
\* the tools of every requested or default id present in the registry.
C28_NoCheckersOfferEverythingPresent ==
  /\ ~functionCallChecker.present =>
       \A model \in Models, provider \in Providers : checkFunctionCallSupport(model, provider)
  /\ (ret.op = "generateToolsDetailed" /\ ~enableChecker.present) =>
       /\ ret.result.enabledToolIds = PresentIds(ret.args)
       /\ \A j \in 1..Len(ret.result.filteredTools) :
            ret.result.filteredTools[j].reason = "not_found"
  /\ (IsToolsCall /\ ~enableChecker.present /\ ~functionCallChecker.present) =>
       ReturnedTools = ToolsOfIds(PresentIds(ret.args))

\* An engine without checkers offered the tools of a requested id and of a
\* different default id.
C28_Witness ==
  /\ ret.op = "generateTools"
  /\ ~enableChecker.present /\ ~functionCallChecker.present
  /\ ret.args.toolIds.defined
  /\ Len(ret.args.toolIds.value) = 1 /\ Len(defaultToolIds) = 1
  /\ ret.args.toolIds.value[1] # defaultToolIds[1]
  /\ Len(PresentIds(ret.args)) = 2
  /\ Len(ReturnedTools) = 3

\* ------------------------------------------------------------------------
\* Resolutions as seen by their caller: the caller's toolIds array after the
\* call and the registry the call read.
\* ------------------------------------------------------------------------
toolIdsAfterMerge_pushes(params) == Some(ToolIdsOf(params) \o defaultToolIds)

\* const allToolIds = [...toolIds, ...this.defaultToolIds] builds a new array;
\* nothing later writes to params.toolIds.
toolIdsAfterMerge(params) == params.toolIds

InitReadOnly ==
  \E schemas \in SchemaLists, defaults \in SeqsUpTo(PluginIds, MaxDefaultToolIds),
     ec \in EnableCheckers :
    /\ manifestSchemas = MapFromSchemas(schemas)
    /\ enableChecker = ec
    /\ functionCallChecker = [present |-> FALSE, supports |-> {}]
    /\ defaultToolIds = defaults
    /\ options = [generateToolName |-> "none"]
    /\ ret = [op |-> "constructor", args |-> schemas, result |-> Undefined]
    /\ LiveIdle /\ PipelineIdle /\ ReorderIdle /\ ServicesIdle

\* engine.generateTools(params)
GenerateToolsCall(params) ==
  /\ ret' = [op |-> "generateTools", args |-> params, result |-> generateTools(params),
             read |-> manifestSchemas, toolIdsAfter |-> toolIdsAfterMerge(params)]
  /\ UNCHANGED <<manifestSchemas, enableChecker, functionCallChecker, defaultToolIds, options>>
  /\ UNCHANGED <<liveVars, pipelineVars, reorderVars, serviceVars>>

\* engine.generateToolsDetailed(params)
GenerateToolsDetailedCall(params) ==
  /\ ret' = [op |-> "generateToolsDetailed", args |-> params,
             result |-> generateToolsDetailed(params),
             read |-> manifestSchemas, toolIdsAfter |-> toolIdsAfterMerge(params)]
  /\ UNCHANGED <<manifestSchemas, enableChecker, functionCallChecker, defaultToolIds, options>>
  /\ UNCHANGED <<liveVars, pipelineVars, reorderVars, serviceVars>>

NextReadOnly ==
  \/ \E params \in GenerateToolsParams : GenerateToolsCall(params)
  \/ \E params \in GenerateToolsParams : GenerateToolsDetailedCall(params)
  \/ \E schemas \in SchemaLists : UpdateManifestSchemas(schemas)
  \/ \E manifest \in ManifestPool : AddPluginManifest(manifest)
  \/ \E pluginId \in PluginIds : RemovePluginManifest(pluginId)

SpecReadOnly == InitReadOnly /\ [][NextReadOnly]_vars

\* ------------------------------------------------------------------------
\* C27
\* ------------------------------------------------------------------------
ResolutionOps == {"generateTools", "generateToolsDetailed"}

ResolutionReadsOnly ==
  ret'.op \in ResolutionOps =>
    /\ manifestSchemas' = manifestSchemas
    /\ defaultToolIds' = defaultToolIds
    /\ ret'.toolIdsAfter = ret'.args.toolIds
    /\ ret'.read = manifestSchemas'
    /\ ret.op \in ResolutionOps => ret'.read = ret.read

\* C27: generateTools and generateToolsDetailed leave the registry mapping,
\* the default tool ids and the caller's toolIds array unchanged, so
\* resolutions that follow one another with no registry update in between
\* see the same registry.
C27_ResolutionsAreReadOnly == [][ResolutionReadsOnly]_vars

\* A resolution of two requested ids and a default id that returned tools.
C27_Witness ==
  /\ ret.op = "generateToolsDetailed"
  /\ ret.args.toolIds.defined
  /\ Len(ret.args.toolIds.value) = 2
  /\ Len(defaultToolIds) = 1
  /\ Len(ret.result.enabledToolIds) = 3
  /\ ret.toolIdsAfter = ret.args.toolIds
  /\ Len(manifestSchemas) = 2

\* ------------------------------------------------------------------------
\* Tool store, plugin store slice (store/tool/slices/oldStore), as exercised
\* by action.test.ts with doubles for toolService, pluginService, notification
\* ------------------------------------------------------------------------
StorePluginIds == {"plugin1", "plugin2"}

\* A DiscoverPluginItem of the store.
PluginItem(id) == [identifier |-> id, manifest |-> "https://abc.com/manifest.json"]

\* oldPluginItems as the tests set it with useToolStore.setState.
PluginItemLists ==
  { <<>>, <<PluginItem("plugin1")>>, <<PluginItem("plugin1"), PluginItem("plugin2")>> }

\* toolService.getOldPluginList: mockResolvedValue({ items }) or mockRejectedValue(error)
OldPluginListMocks ==
  { [resolves |-> TRUE, items |-> l] : l \in PluginItemLists } \cup
  { [resolves |-> FALSE, items |-> <<>>] }

\* toolService.getToolManifest: mockResolvedValue(manifest) or mockRejectedValue(error)
ToolManifestMocks ==
  { [resolves |-> TRUE, manifest |-> "realtime-weather", error |-> ""],
    [resolves |-> FALSE, manifest |-> "", error |-> "noManifest"] }

notToolStore ==
  <<engineVars, liveVars, pipelineVars, reorderVars, aiModels, messageService, baichuanRequest>>

\* beforeEach and the Given part of a test.
InitToolStore ==
  /\ \E items \in PluginItemLists, listMock \in OldPluginListMocks,
        manifestMock \in ToolManifestMocks :
       toolStore = [oldPluginItems |-> Some(items),
                    pluginInstallLoading |-> {},
                    getOldPluginList |-> listMock,
                    getToolManifest |-> manifestMock,
                    pc |-> "idle",
                    call |-> [op |-> "none", id |-> ""],
                    before |-> Some(items),
                    returned |-> Undefined,
                    thrown |-> FALSE,
                    fetched |-> "",
                    listCalls |-> 0,
                    manifestCalls |-> 0,
                    loadingUpdates |-> <<>>,
                    installCalls |-> <<>>,
                    errors |-> <<>>]
  /\ EngineIdle /\ LiveIdle /\ PipelineIdle /\ ReorderIdle
  /\ aiModels = <<>> /\ messageService = <<>> /\ baichuanRequest = <<>>

\* A store action is entered with the doubles' call records empty.
Entered(op, id) ==
  [toolStore EXCEPT !.call = [op |-> op, id |-> id],
                    !.before = toolStore.oldPluginItems,
                    !.returned = Undefined, !.thrown = FALSE, !.fetched = "",
                    !.listCalls = 0, !.manifestCalls = 0,
                    !.loadingUpdates = <<>>, !.installCalls = <<>>, !.errors = <<>>]

StoreAtRest == toolStore.pc \in {"idle", "done"}

\* pluginList = await useToolStore.getState().loadPluginStore(): the action
\* calls toolService.getOldPluginList and awaits it.
LoadPluginStore ==
  /\ StoreAtRest
  /\ toolStore' = [Entered("loadPluginStore", "") EXCEPT !.pc = "awaitList", !.listCalls = 1]
  /\ UNCHANGED notToolStore

\* The list arrives: it is stored as oldPluginItems and returned.
LoadPluginStoreResolved ==
  /\ toolStore.pc = "awaitList"
  /\ toolStore.getOldPluginList.resolves
  /\ toolStore' = [toolStore EXCEPT !.pc = "done",
                                    !.oldPluginItems = Some(toolStore.getOldPluginList.items),
                                    !.returned = Some(toolStore.getOldPluginList.items)]
  /\ UNCHANGED notToolStore

LoadPluginStoreRejected_storesUndefined ==
  /\ toolStore.pc = "awaitList"
  /\ ~toolStore.getOldPluginList.resolves
  /\ toolStore' = [toolStore EXCEPT !.pc = "done", !.thrown = TRUE,
                                    !.oldPluginItems = Undefined]
  /\ UNCHANGED notToolStore

\* The fetch fails: the rejection leaves the action before anything is stored.
LoadPluginStoreRejected ==
  /\ toolStore.pc = "awaitList"
  /\ ~toolStore.getOldPluginList.resolves
  /\ toolStore' = [toolStore EXCEPT !.pc = "done", !.thrown = TRUE]
  /\ UNCHANGED notToolStore

StoreHasItem(id) ==
  /\ toolStore.oldPluginItems.defined
  /\ \E i \in 1..Len(toolStore.oldPluginItems.value) :
       toolStore.oldPluginItems.value[i].identifier = id

\* updateInstallLoadingState(key, value): pluginInstallLoading[key] = value
updateInstallLoadingState(store, key, value) ==
  [store EXCEPT !.pluginInstallLoading =
                   IF value = "true" THEN store.pluginInstallLoading \cup {key}
                   ELSE store.pluginInstallLoading \ {key},
                !.loadingUpdates = Append(store.loadingUpdates, [key |-> key, value |-> value])]

\* await useToolStore.getState().installPlugin(id): for an id of the plugin
\* list the loading state is set and the manifest is requested.
InstallPlugin(id) ==
  /\ StoreAtRest
  /\ toolStore' =
       IF StoreHasItem(id)
         THEN [updateInstallLoadingState(Entered("installPlugin", id), id, "true")
                 EXCEPT !.pc = "awaitManifest", !.manifestCalls = 1]
         ELSE [Entered("installPlugin", id) EXCEPT !.pc = "done"]
  /\ UNCHANGED notToolStore

\* The manifest arrives and is handed to pluginService.installPlugin.
ManifestResolved ==
  /\ toolStore.pc = "awaitManifest"
  /\ toolStore.getToolManifest.resolves
  /\ toolStore' = [toolStore EXCEPT
                     !.pc = "awaitInstall",
                     !.fetched = toolStore.getToolManifest.manifest,
                     !.installCalls = Append(toolStore.installCalls,
                                             [identifier |-> toolStore.call.id,
                                              type |-> "plugin",
                                              manifest |-> toolStore.getToolManifest.manifest])]
  /\ UNCHANGED notToolStore

\* The manifest fetch fails: loading cleared, notification.error raised.
ManifestRejected ==
  /\ toolStore.pc = "awaitManifest"
  /\ ~toolStore.getToolManifest.resolves
  /\ toolStore' = [updateInstallLoadingState(toolStore, toolStore.call.id, "undefined")
                     EXCEPT !.pc = "done",
                            !.errors = Append(toolStore.errors,
                                              [description |-> "error." \o toolStore.getToolManifest.error,
                                               message |-> "error.installError"])]
  /\ UNCHANGED notToolStore

InstallCompleted_keepsLoading ==
  /\ toolStore.pc = "awaitInstall"
  /\ toolStore' = [toolStore EXCEPT !.pc = "done"]
  /\ UNCHANGED notToolStore

\* The install has completed: the loading state is cleared.
InstallCompleted ==
  /\ toolStore.pc = "awaitInstall"
  /\ toolStore' = [updateInstallLoadingState(toolStore, toolStore.call.id, "undefined")
                     EXCEPT !.pc = "done"]
  /\ UNCHANGED notToolStore

NextToolStore ==
  \/ LoadPluginStore
  \/ LoadPluginStoreResolved
  \/ LoadPluginStoreRejected
  \/ \E id \in StorePluginIds : InstallPlugin(id)
  \/ ManifestResolved
  \/ ManifestRejected
  \/ InstallCompleted

SpecToolStore == InitToolStore /\ [][NextToolStore]_vars

\* ------------------------------------------------------------------------
\* C21
\* ------------------------------------------------------------------------
LoadFinished == toolStore.call.op = "loadPluginStore" /\ toolStore.pc = "done"

\* C21: when fetching the plugin list fails, loadPluginStore hands the error
\* to its caller, returns no list, and oldPluginItems is what it was before
\* the call, never undefined.
C21_FailedLoadKeepsItems ==
  /\ toolStore.oldPluginItems.defined
  /\ (LoadFinished /\ ~toolStore.getOldPluginList.resolves) =>
       /\ toolStore.thrown
       /\ ~toolStore.returned.defined
       /\ toolStore.listCalls = 1
       /\ toolStore.oldPluginItems = toolStore.before

\* A failed load over a store that held one item.
C21_Witness ==
  /\ LoadFinished
  /\ toolStore.thrown
  /\ toolStore.oldPluginItems = Some(<<PluginItem("plugin1")>>)

\* ------------------------------------------------------------------------
\* C22
\* ------------------------------------------------------------------------
InstallSucceeded ==
  /\ toolStore.call.op = "installPlugin"
  /\ toolStore.pc = "done"
  /\ toolStore.manifestCalls = 1
  /\ toolStore.getToolManifest.resolves

\* C22: a successful installPlugin(id) updates the install-loading state of id
\* exactly twice, set before the manifest fetch and cleared after the install,
\* calls pluginService.installPlugin once with {identifier: id, type: 'plugin',
\* manifest: the fetched manifest}, raises no error notification, and leaves
\* id not loading.
C22_InstallSetsThenClearsLoading ==
  /\ InstallSucceeded =>
       /\ toolStore.loadingUpdates = <<[key |-> toolStore.call.id, value |-> "true"],
                                       [key |-> toolStore.call.id, value |-> "undefined"]>>
       /\ toolStore.installCalls = <<[identifier |-> toolStore.call.id, type |-> "plugin",
                                      manifest |-> toolStore.getToolManifest.manifest]>>
       /\ toolStore.errors = <<>>
       /\ toolStore.call.id \notin toolStore.pluginInstallLoading
  /\ toolStore.manifestCalls = 1 =>
       toolStore.loadingUpdates[1] = [key |-> toolStore.call.id, value |-> "true"]
  /\ (toolStore.call.op = "installPlugin" /\ toolStore.getToolManifest.resolves
        /\ Len(toolStore.loadingUpdates) = 2) =>
       Len(toolStore.installCalls) = 1

\* plugin1 installed with the fetched manifest.
C22_Witness ==
  /\ InstallSucceeded
  /\ toolStore.call.id = "plugin1"
  /\ Len(toolStore.installCalls) = 1
  /\ toolStore.installCalls[1].manifest = "realtime-weather"
  /\ toolStore.pluginInstallLoading = {}

\* ------------------------------------------------------------------------
\* AiModelModel over the ai_models table, as exercised by its test
\* ------------------------------------------------------------------------
MaxModels == 2

AiModelIds == {"existing-model", "new-model"}
AiProviderIds == {"openai", "b"}
DisplayNames == {"Old Name", "New Name"}

\* AiProviderModelListItem entries handed to batchUpdateAiModels.
ModelItems == [id : AiModelIds, displayName : DisplayNames]

\* Lists of entries, one entry per model id at most.
ModelItemLists ==
  { l \in SeqsUpTo(ModelItems, MaxModels) :
      \A i \in 1..Len(l), j \in 1..Len(l) : i # j => l[i].id # l[j].id }

\* Rows of the table for the test user.
AiModelRows == [id : AiModelIds, providerId : AiProviderIds, displayName : DisplayNames]

HasRow(rows, id, providerId) == \E r \in rows : r.id = id /\ r.providerId = providerId

notAiModels ==
  <<engineVars, liveVars, pipelineVars, reorderVars, toolStore, messageService, baichuanRequest>>

\* beforeEach / afterEach: the user's rows are gone.
InitAiModels ==
  /\ aiModels = [rows |-> {}, before |-> {},
                 call |-> [op |-> "none", providerId |-> "", models |-> <<>>],
                 result |-> <<>>]
  /\ EngineIdle /\ LiveIdle /\ PipelineIdle /\ ReorderIdle
  /\ toolStore = <<>> /\ messageService = <<>> /\ baichuanRequest = <<>>

\* await aiProviderModel.create({ id, providerId, displayName })
CreateAiModel(row) ==
  /\ ~HasRow(aiModels.rows, row.id, row.providerId)
  /\ aiModels' = [rows |-> aiModels.rows \cup {row}, before |-> aiModels.rows,
                  call |-> [op |-> "create", providerId |-> row.providerId, models |-> <<row>>],
                  result |-> <<row>>]
  /\ UNCHANGED notAiModels

RECURSIVE InsertMissing(_, _, _)
\* Insert the records in list order, skipping a record whose row exists.
InsertMissing(rows, providerId, models) ==
  IF models = <<>> THEN [rows |-> rows, inserted |-> <<>>]
  ELSE LET m == Head(models)
           row == [id |-> m.id, providerId |-> providerId, displayName |-> m.displayName]
       IN IF HasRow(rows, m.id, providerId)
            THEN InsertMissing(rows, providerId, Tail(models))
            ELSE LET rest == InsertMissing(rows \cup {row}, providerId, Tail(models))
                 IN [rows |-> rest.rows, inserted |-> <<row>> \o rest.inserted]

RECURSIVE Upsert(_, _, _)
Upsert(rows, providerId, models) ==
  IF models = <<>> THEN [rows |-> rows, inserted |-> <<>>]
  ELSE LET m == Head(models)
           row == [id |-> m.id, providerId |-> providerId, displayName |-> m.displayName]
           kept == {r \in rows : ~(r.id = m.id /\ r.providerId = providerId)}
           rest == Upsert(kept \cup {row}, providerId, Tail(models))
       IN [rows |-> rest.rows, inserted |-> <<row>> \o rest.inserted]

batchUpdateAiModels_overwrites(rows, providerId, models) ==
  IF Len(models) = 0 THEN [rows |-> rows, inserted |-> <<>>]
  ELSE Upsert(rows, providerId, models)

\* AiModelModel.batchUpdateAiModels: nothing to do for an empty list, else
\* one insert of all records that leaves conflicting rows alone.
batchUpdateAiModels(rows, providerId, models) ==
  IF Len(models) = 0 THEN [rows |-> rows, inserted |-> <<>>]
  ELSE InsertMissing(rows, providerId, models)

\* await aiProviderModel.batchUpdateAiModels(providerId, models)
BatchUpdateAiModels(providerId, models) ==
  /\ aiModels' = [rows |-> batchUpdateAiModels(aiModels.rows, providerId, models).rows,
                  before |-> aiModels.rows,
                  call |-> [op |-> "batchUpdateAiModels", providerId |-> providerId,
                            models |-> models],
                  result |-> batchUpdateAiModels(aiModels.rows, providerId, models).inserted]
  /\ UNCHANGED notAiModels

NextAiModels ==
  \/ \E row \in AiModelRows : CreateAiModel(row)
  \/ \E providerId \in AiProviderIds, models \in ModelItemLists :
       BatchUpdateAiModels(providerId, models)

SpecAiModels == InitAiModels /\ [][NextAiModels]_vars

C23_WitnessEmptyList ==
  /\ aiModels.call.op = "batchUpdateAiModels"
  /\ aiModels.call.models = <<>>
  /\ aiModels.rows # {}

\* ------------------------------------------------------------------------
\* ClientService (services/message/client.ts)
\* ------------------------------------------------------------------------
\* A string | undefined value.
NoString == [defined |-> FALSE, value |-> ""]
Str(s) == [defined |-> TRUE, value |-> s]

INBOX_SESSION_ID == "inbox"

\* sessionId arguments: absent, empty, the inbox id, a regular id.
SessionIdArgs == {NoString, Str(""), Str(INBOX_SESSION_ID), Str("s1")}

\* Objects of the client file storage and urls that refer to them; a url is
\* kept as its scheme and the rest, null as the empty sequence.
FileHashes == {"h1", "h2"}
FileUrls == {<<>>} \cup {<<"client-s3://", h>> : h \in FileHashes}
FileTypes == {"image/png"}

notMessageService ==
  <<engineVars, liveVars, pipelineVars, reorderVars, toolStore, aiModels, baichuanRequest>>

\* JavaScript truthiness of a string | undefined.
Truthy(s) == s.defined /\ s.value # ""

\* private toDbSessionId
toDbSessionId(sessionId) ==
  IF sessionId.defined /\ sessionId.value = INBOX_SESSION_ID THEN NoString ELSE sessionId

\* sessionId: sessionId ? (this.toDbSessionId(sessionId) as string) : ''
createSessionKey(sessionId) ==
  IF Truthy(sessionId) THEN toDbSessionId(sessionId) ELSE Str("")

\* url.replace('client-s3://', '')
HashOfUrl(url) == SelectSeq(url, LAMBDA part : part # "client-s3://")

\* private getBase64ByFileHash: throws when the storage has no object.
getBase64ByFileHash(files, hash) ==
  IF hash \notin files
    THEN [thrown |-> TRUE, error |-> "file not found", value |-> ""]
    ELSE [thrown |-> FALSE, error |-> "", value |-> "base64(" \o hash \o ")"]

\* private postProcessUrl: (url as string).replace throws on null.
postProcessUrl(files, url, fileType) ==
  IF url = <<>>
    THEN [thrown |-> TRUE, error |-> "TypeError", value |-> ""]
    ELSE LET base64 == getBase64ByFileHash(files, HashOfUrl(url)[1])
         IN IF base64.thrown THEN base64
            ELSE [thrown |-> FALSE, error |-> "",
                  value |-> "data:" \o fileType \o ";base64," \o base64.value]

NoCall ==
  [op |-> "none", sessionId |-> NoString, key |-> NoString, found |-> FALSE,
   url |-> <<>>, result |-> [thrown |-> FALSE, error |-> "", value |-> ""]]

\* A client database without messages and a file storage with some objects.
InitMessageService ==
  /\ \E files \in SUBSET FileHashes :
       messageService = [keys |-> {}, written |-> [s \in SessionIdArgs |-> {}],
                         files |-> files, call |-> NoCall]
  /\ EngineIdle /\ LiveIdle /\ PipelineIdle /\ ReorderIdle
  /\ toolStore = <<>> /\ aiModels = <<>> /\ baichuanRequest = <<>>

\* A write through messageModel.create / createNewMessage under key.
Written(op, sessionId, key) ==
  [messageService EXCEPT
     !.keys = messageService.keys \cup {key},
     !.written = [messageService.written EXCEPT ![sessionId] = {key}],
     !.call = [NoCall EXCEPT !.op = op, !.sessionId = sessionId, !.key = key,
                             !.found = TRUE]]

\* A read through messageModel.query / queryBySessionId under key.
Queried(op, sessionId, key) ==
  [messageService EXCEPT
     !.call = [NoCall EXCEPT !.op = op, !.sessionId = sessionId, !.key = key,
                             !.found = key \in messageService.keys]]

\* messageModel.deleteMessagesBySession under key.
Deleted(op, sessionId, key) ==
  [messageService EXCEPT
     !.keys = messageService.keys \ {key},
     !.call = [NoCall EXCEPT !.op = op, !.sessionId = sessionId, !.key = key,
                             !.found = key \in messageService.keys]]

createMessage(sessionId) ==
  /\ messageService' = Written("createMessage", sessionId, createSessionKey(sessionId))
  /\ UNCHANGED notMessageService

createNewMessage(sessionId) ==
  /\ messageService' = Written("createNewMessage", sessionId, createSessionKey(sessionId))
  /\ UNCHANGED notMessageService

getMessages(sessionId) ==
  /\ messageService' = Queried("getMessages", sessionId, toDbSessionId(sessionId))
  /\ UNCHANGED notMessageService

getAllMessagesInSession(sessionId) ==
  /\ messageService' = Queried("getAllMessagesInSession", sessionId, toDbSessionId(sessionId))
  /\ UNCHANGED notMessageService

removeMessagesByAssistant(sessionId) ==
  /\ messageService' = Deleted("removeMessagesByAssistant", sessionId, toDbSessionId(sessionId))
  /\ UNCHANGED notMessageService

\* postProcessUrl as handed to the message model for a file of a message.
PostProcessUrl(url, fileType) ==
  /\ messageService' =
       [messageService EXCEPT
          !.call = [NoCall EXCEPT !.op = "postProcessUrl", !.url = url,
                                  !.result = postProcessUrl(messageService.files, url, fileType)]]
  /\ UNCHANGED notMessageService

NextMessageService ==
  \/ \E sessionId \in SessionIdArgs : createMessage(sessionId)
  \/ \E sessionId \in SessionIdArgs : createNewMessage(sessionId)
  \/ \E sessionId \in SessionIdArgs : getMessages(sessionId)
  \/ \E sessionId \in SessionIdArgs : getAllMessagesInSession(sessionId)
  \/ \E sessionId \in SessionIdArgs : removeMessagesByAssistant(sessionId)
  \/ \E url \in FileUrls, fileType \in FileTypes : PostProcessUrl(url, fileType)

SpecMessageService == InitMessageService /\ [][NextMessageService]_vars

\* ------------------------------------------------------------------------
\* C24
\* ------------------------------------------------------------------------
\* C24: resolving an attachment reference for which the file storage holds
\* no content yields null and never raises a fault.
C24_MissingContentYieldsNull ==
  (/\ messageService.call.op = "postProcessUrl"
   /\ messageService.call.url # <<>>
   /\ messageService.call.url[2] \notin messageService.files) =>
    ~messageService.call.result.thrown

\* ------------------------------------------------------------------------
\* C29
\* ------------------------------------------------------------------------
ReadsAndDeletes == {"getMessages", "getAllMessagesInSession", "removeMessagesByAssistant"}

\* C29: for every sessionId (regular, the inbox id, absent or empty) the key
\* createMessage and createNewMessage store under equals the key getMessages
\* and getAllMessagesInSession query and removeMessagesByAssistant deletes,
\* so a message created under a session id is found under it.
C29_SameKeyForWritesReadsDeletes ==
  LET call == messageService.call
  IN (call.op \in ReadsAndDeletes /\ messageService.written[call.sessionId] # {}) =>
       /\ messageService.written[call.sessionId] = {call.key}
       /\ (call.op # "removeMessagesByAssistant" /\ call.key \in messageService.keys)
            => call.found

\* ========================================================================
\* LobeBaichuanAI: params.chatCompletion.handlePayload
\* (packages/model-runtime/src/providers/baichuan/index.ts)
\* ========================================================================

MaxPayloadTools == 2   \* longest tools list a caller passes

\* A payload is a function from the keys it carries to their values; a key
\* that is absent is not in its domain.
FunctionTools ==
  { [type |-> "function", function |-> [name |-> n]] : n \in {"search", "calc"} }
PayloadTools == SeqsUpTo(FunctionTools, MaxPayloadTools)
TemperatureTenths == {0, 10, 14}
OptionalKeys == {"stream", "enabledSearch", "temperature", "tools"}
ChatStreamPayload(keys, enabledSearch, temperature, tools) ==
  [k \in {"model"} \cup keys |->
     CASE k = "model" -> "Baichuan4"
       [] k = "stream" -> TRUE
       [] k = "enabledSearch" -> enabledSearch
       [] k = "temperature" -> temperature
       [] k = "tools" -> tools]

\* process.env.BAICHUAN_SEARCH_MODE: unset ("") or one of the documented modes
SearchModeEnv == {"", "performance_first", "quality_first"}

notBaichuan ==
  <<engineVars, liveVars, pipelineVars, reorderVars, toolStore, aiModels, messageService>>

Get(payload, k) == IF k \in DOMAIN payload THEN Some(payload[k]) ELSE Undefined

\* resolveParameters({ temperature }, { normalizeTemperature: true }): a
\* temperature that is given is halved, one that is not stays undefined.
resolveParameters(temperature) ==
  IF temperature.defined THEN Some(temperature.value \div 2) ELSE Undefined

webSearchTool(env) ==
  [type |-> "web_search",
   web_search |-> [enable |-> TRUE,
                   search_mode |-> IF env # "" THEN env ELSE "performance_first"]]

OrEmpty(tools) == IF tools.defined THEN tools.value ELSE <<>>

handlePayload_searchFirst(payload, env) ==
  LET enabledSearch == Get(payload, "enabledSearch")
      tools == Get(payload, "tools")
      rest == DOMAIN payload \ {"enabledSearch", "temperature", "tools"}
      baichuanTools ==
        IF enabledSearch.defined /\ enabledSearch.value
          THEN Some(<<webSearchTool(env)>> \o OrEmpty(tools))
          ELSE tools
  IN  [k \in rest \cup {"temperature", "tools"} |->
         CASE k = "temperature" -> resolveParameters(Get(payload, "temperature"))
           [] k = "tools" -> baichuanTools
           [] OTHER -> payload[k]]

handlePayload(payload, env) ==
  LET enabledSearch == Get(payload, "enabledSearch")
      tools == Get(payload, "tools")
      rest == DOMAIN payload \ {"enabledSearch", "temperature", "tools"}
      baichuanTools ==
        IF enabledSearch.defined /\ enabledSearch.value
          THEN Some(OrEmpty(tools) \o <<webSearchTool(env)>>)
          ELSE tools
  IN  [k \in rest \cup {"temperature", "tools"} |->
         CASE k = "temperature" -> resolveParameters(Get(payload, "temperature"))
           [] k = "tools" -> baichuanTools
           [] OTHER -> payload[k]]

InitBaichuan ==
  /\ EngineIdle /\ LiveIdle /\ PipelineIdle /\ ReorderIdle
  /\ toolStore = <<>> /\ aiModels = <<>> /\ messageService = <<>>
  /\ \E env \in SearchModeEnv :
       baichuanRequest = [env |-> env, handled |-> FALSE,
                          payload |-> [k \in {"model"} |-> "Baichuan4"],
                          out |-> [k \in {"model"} |-> "Baichuan4"]]

HandlePayload ==
  /\ \E keys \in SUBSET OptionalKeys, enabledSearch \in BOOLEAN,
        temperature \in TemperatureTenths, tools \in PayloadTools :
       LET payload == ChatStreamPayload(keys, enabledSearch, temperature, tools)
       IN  baichuanRequest' =
             [baichuanRequest EXCEPT !.handled = TRUE,
                                     !.payload = payload,
                                     !.out = handlePayload(payload, baichuanRequest.env)]
  /\ UNCHANGED notBaichuan

NextBaichuan == HandlePayload

SpecBaichuan == InitBaichuan /\ [][NextBaichuan]_vars

SearchEnabled(payload) ==
  "enabledSearch" \in DOMAIN payload /\ payload["enabledSearch"]

CallerTools(payload) == IF "tools" \in DOMAIN payload THEN payload["tools"] ELSE <<>>

WebSearchCount(tools) ==
  Cardinality({ i \in 1..Len(tools) : tools[i].type = "web_search" })

\* ------------------------------------------------------------------------
\* C30: after handlePayload, when enabledSearch is set the outgoing tools are
\* the caller's tools in their order followed by exactly one web_search tool
\* (a lone web_search tool when the caller passed none); when it is not set
\* the outgoing tools are the caller's, absent when the caller's are absent;
\* and the outgoing payload never carries an enabledSearch key.
\* ------------------------------------------------------------------------
C30_SearchToolAppendedFlagDropped ==
  baichuanRequest.handled =>
    LET payload == baichuanRequest.payload
        out == baichuanRequest.out
        caller == CallerTools(payload)
    IN  /\ "enabledSearch" \notin DOMAIN out
        /\ SearchEnabled(payload) =>
             /\ out["tools"].defined
             /\ Len(out["tools"].value) = Len(caller) + 1
             /\ SubSeq(out["tools"].value, 1, Len(caller)) = caller
             /\ out["tools"].value[Len(caller) + 1].type = "web_search"
             /\ WebSearchCount(out["tools"].value) = 1
        /\ ~SearchEnabled(payload) =>
             /\ out["tools"].defined <=> "tools" \in DOMAIN payload
             /\ out["tools"].defined => out["tools"].value = payload["tools"]

C30_Witness ==
  /\ baichuanRequest.handled
  /\ SearchEnabled(baichuanRequest.payload)
  /\ Len(CallerTools(baichuanRequest.payload)) = 2
  /\ Len(baichuanRequest.out["tools"].value) = 3

C30_WitnessNoTools ==
  /\ baichuanRequest.handled
  /\ SearchEnabled(baichuanRequest.payload)
  /\ "tools" \notin DOMAIN baichuanRequest.payload
  /\ Len(baichuanRequest.out["tools"].value) = 1

C30_WitnessPassThrough ==
  /\ baichuanRequest.handled
  /\ "enabledSearch" \in DOMAIN baichuanRequest.payload
  /\ ~SearchEnabled(baichuanRequest.payload)
  /\ "tools" \notin DOMAIN baichuanRequest.payload
  /\ ~baichuanRequest.out["tools"].defined

====
